---- MODULE Spec2Model ----
(***************************************************************************)
(* Workspace mutation engine (src/core/FileManager.js) and plan runner     *)
(* (src/core/Planner.js, src/core/Executor.js).                            *)
(*                                                                         *)
(* Strings are sequences of one-character strings, so that split, join,    *)
(* startsWith, includes and replaceAll are computed character by           *)
(* character.  An absolute path in normal form is a sequence of segments,  *)
(* <<>> being "/".  An optional value (JavaScript null or undefined) is a  *)
(* sequence of length 0, a present value v is <<v>>.                       *)
(***************************************************************************)
EXTENDS Integers, Sequences, FiniteSets, TLC

VARIABLES
    fs,                     \* the disk: absolute path -> [k, c]
    workspaceRoot,          \* this.workspaceRoot
    allowOutsideWorkspace,  \* this.allowOutsideWorkspace
    maxUndoHistory,         \* this.maxUndoHistory
    operations,             \* this.operations
    undoStack,              \* this.undoStack
    redoStack,              \* this.redoStack
    res,                    \* the last call and the value it returned
    touched,                \* the paths the last call read, wrote, made or removed
    mutations,              \* number of successful mutations so far
    trk,                    \* where the caller is in a mutate, undo, redo sequence
    clock,                  \* Date.now()
    plans,                  \* Planner: this.plans
    planState,              \* Idle, Running, Completed or Failed
    pc,                     \* where executePlan and executeStep stand
    cur,                    \* executePlan: plan
    stepIndex,              \* executePlan: i
    results,                \* executePlan: results
    outcome,                \* what the last Planner call returned or threw
    actions,                \* executeStep: actions
    actionResults,          \* executeStep: results
    stepResult,             \* what executeStep returned
    invoked,                \* the step indexes executeStep was called for
    applied,                \* the actions of this step passed to executeAction
    interpreterFailed,      \* a model call of this run failed
    actionFailed,           \* an action of this run returned success = false
    planEntries,            \* the history entries this run pushed
    running,                \* CLI: this.running
    hostPc,                 \* where start and runMainLoop stand
    answer,                 \* what the last processInput resolved to or rejected with
    safeMode,               \* preferences.safeMode
    asked,                  \* the confirmation prompt of the last operation, if any
    pending,                \* handleBuildMode: the file blocks still to write
    inFlight,               \* the actions passed to executeAction that have not returned
    retry                   \* createCompletionWithRetry: its locals and where it stands

fmVars == <<fs, workspaceRoot, allowOutsideWorkspace, maxUndoHistory,
            operations, undoStack, redoStack, res, touched>>

planVars == <<clock, plans, planState, pc, cur, stepIndex, results, outcome,
              actions, actionResults, stepResult, invoked, applied,
              interpreterFailed, actionFailed, planEntries>>

retryVars == <<retry>>

\* createCompletionWithRetry: where it stands, its locals maxRetries,
\* baseDelayMs and attempt, how each client.chat.completions.create call
\* settled, the delays slept between the calls, and what it returned or threw
retryPc == retry.pc
maxRetries == retry.maxRetries
baseDelayMs == retry.baseDelayMs
attempt == retry.attempt
calls == retry.calls
delays == retry.delays
completion == retry.completion

hostVars == <<running, hostPc, answer, safeMode, asked, pending, inFlight, retryVars>>

----------------------------------------------------------------------------
(* Bounds *)

MaxOps == 3          \* successful mutations in one run
MaxHist == 3         \* largest configured maxUndoHistory
MaxContentLen == 3   \* characters in a file
MaxSteps == 3        \* steps of a plan
MaxPlans == 1        \* plans in the registry

----------------------------------------------------------------------------
(* Strings *)

Null == <<>>
Some(v) == <<v>>

Min(a, b) == IF a < b THEN a ELSE b
Max(a, b) == IF a > b THEN a ELSE b

\* String.prototype.startsWith
StartsWith(s, prefix) ==
    /\ Len(prefix) <= Len(s)
    /\ SubSeq(s, 1, Len(prefix)) = prefix

\* String.prototype.includes
Includes(s, search) ==
    \E i \in 1..(Len(s) - Len(search) + 1) : SubSeq(s, i, i + Len(search) - 1) = search

\* String.prototype.split with a one-character separator
RECURSIVE Split(_, _)
Split(s, sep) ==
    IF \A i \in 1..Len(s) : s[i] # sep
    THEN <<s>>
    ELSE LET i == CHOOSE j \in 1..Len(s) : s[j] = sep /\ \A k \in 1..(j - 1) : s[k] # sep
         IN  <<SubSeq(s, 1, i - 1)>> \o Split(SubSeq(s, i + 1, Len(s)), sep)

\* Array.prototype.join
RECURSIVE Join(_, _)
Join(parts, sep) ==
    IF parts = <<>> THEN <<>>
    ELSE IF Len(parts) = 1 THEN parts[1]
    ELSE parts[1] \o sep \o Join(Tail(parts), sep)

\* the characters U+0060 and U+0027
Grave == "GRAVE"
Apostrophe == "APOSTROPHE"

\* GetSubstitution for a match of a string pattern: in the replacement text
\* "$$" stands for "$", "$&" for the matched text, "$" with a grave accent
\* for the text before the match and "$" with an apostrophe for the text
\* after it; there are no captures, so any other "$" is itself
RECURSIVE GetSubstitution(_, _, _, _)
GetSubstitution(replacement, matched, before, after) ==
    IF replacement = <<>> THEN <<>>
    ELSE IF replacement[1] = "$" /\ Len(replacement) >= 2
                /\ replacement[2] \in {"$", "&", Grave, Apostrophe}
        THEN (IF replacement[2] = "$" THEN <<"$">>
              ELSE IF replacement[2] = "&" THEN matched
              ELSE IF replacement[2] = Grave THEN before
              ELSE after)
             \o GetSubstitution(SubSeq(replacement, 3, Len(replacement)),
                                matched, before, after)
    ELSE <<replacement[1]>> \o GetSubstitution(Tail(replacement), matched, before, after)

\* replaceAll from position from on: the matches are taken left to right
\* and do not overlap
RECURSIVE ReplaceAllFrom(_, _, _, _)
ReplaceAllFrom(s, search, replace, from) ==
    LET starts == {j \in from..(Len(s) - Len(search) + 1) :
                      SubSeq(s, j, j + Len(search) - 1) = search}
    IN  IF starts = {} THEN SubSeq(s, from, Len(s))
        ELSE LET i == CHOOSE j \in starts : \A k \in starts : j <= k
             IN  SubSeq(s, from, i - 1)
                     \o GetSubstitution(replace, search, SubSeq(s, 1, i - 1),
                                        SubSeq(s, i + Len(search), Len(s)))
                     \o ReplaceAllFrom(s, search, replace, i + Len(search))

\* String.prototype.replaceAll with a string pattern that is not empty
ReplaceAll(s, search, replace) == ReplaceAllFrom(s, search, replace, 1)

\* A character of a string is a UTF-16 code unit and a character of a file is
\* what the UTF-8 decoder makes of its bytes.  Surrogate is a code unit that
\* is not part of a pair (U+D800), Replacement is U+FFFD, BadByte is a byte
\* that is not UTF-8 (0xFF); every other character is itself in both.
Surrogate == "S"
Replacement == "R"
BadByte == "B"

\* the bytes fs.writeFile(path, s, 'utf8') writes
Utf8Encode(s) ==
    IF \A i \in 1..Len(s) : s[i] # Surrogate THEN s
    ELSE [i \in 1..Len(s) |-> IF s[i] = Surrogate THEN Replacement ELSE s[i]]

\* the string fs.readFile(path, 'utf8') returns for these bytes
Utf8Decode(bytes) ==
    IF \A i \in 1..Len(bytes) : bytes[i] # BadByte THEN bytes
    ELSE [i \in 1..Len(bytes) |-> IF bytes[i] = BadByte THEN Replacement ELSE bytes[i]]

----------------------------------------------------------------------------
(* Paths (node:path, POSIX) *)

Slash == <<"/">>
DotDot == <<".", ".">>
Dot == <<".">>

\* process.cwd()
Cwd == << <<"w">> >>

\* normalizeString: drops empty and "." segments, ".." removes the segment
\* before it and is dropped at the root
RECURSIVE Normalize(_, _)
Normalize(acc, segs) ==
    IF segs = <<>> THEN acc
    ELSE LET s == Head(segs)
         IN  IF s = <<>> \/ s = Dot THEN Normalize(acc, Tail(segs))
             ELSE IF s = DotDot
                  THEN Normalize(IF acc = <<>> THEN acc ELSE SubSeq(acc, 1, Len(acc) - 1),
                                 Tail(segs))
             ELSE Normalize(Append(acc, s), Tail(segs))

\* path.isAbsolute
IsAbsolute(p) == Len(p) > 0 /\ p[1] = "/"

\* path.resolve(p): the absolute path in normal form, relative to process.cwd()
Resolve(p) ==
    IF IsAbsolute(p) THEN Normalize(<<>>, Split(p, "/"))
    ELSE Normalize(Cwd, Split(p, "/"))

\* the string of an absolute path
PathString(abs) == IF abs = <<>> THEN Slash ELSE Slash \o Join(abs, Slash)

CommonLen(a, b) ==
    CHOOSE n \in 0..Min(Len(a), Len(b)) :
        /\ SubSeq(a, 1, n) = SubSeq(b, 1, n)
        /\ n < Min(Len(a), Len(b)) => a[n + 1] # b[n + 1]

\* path.relative(from, to) of two absolute paths in normal form, as a string
Relative(from, to) ==
    LET n == CommonLen(from, to)
    IN  Join([i \in 1..(Len(from) - n) |-> DotDot] \o SubSeq(to, n + 1, Len(to)), Slash)

\* path.dirname of an absolute path in normal form
Dirname(abs) == IF abs = <<>> THEN abs ELSE SubSeq(abs, 1, Len(abs) - 1)

----------------------------------------------------------------------------
(* The disk (fs-extra).  fs maps every existing absolute path to its node;  *)
(* the parent of an existing path is an existing directory.                 *)

DirNode == [k |-> "dir", c |-> <<>>]
FileNode(content) == [k |-> "file", c |-> content]

Prefixes(abs) == {SubSeq(abs, 1, i) : i \in 0..Len(abs)}
IsUnder(root, abs) == Len(root) <= Len(abs) /\ SubSeq(abs, 1, Len(root)) = root

\* fs.pathExists
PathExists(f, abs) == abs \in DOMAIN f

IsFile(f, abs) == abs \in DOMAIN f /\ f[abs].k = "file"
IsDir(f, abs) == abs \in DOMAIN f /\ f[abs].k = "dir"

\* fs.ensureDir throws when a component of the path is a file
EnsureDirOk(f, dir) == \A q \in Prefixes(dir) : ~IsFile(f, q)
EnsureDir(f, dir) ==
    [q \in DOMAIN f \cup Prefixes(dir) |-> IF q \in DOMAIN f THEN f[q] ELSE DirNode]

\* fs.readFile(path, 'utf8') throws on a missing path and on a directory
ReadFileOk(f, abs) == IsFile(f, abs)
ReadFile(f, abs) == Utf8Decode(f[abs].c)

\* fs.writeFile throws when the parent is not a directory or the target is one
WriteFileOk(f, abs) == abs # <<>> /\ IsDir(f, Dirname(abs)) /\ ~IsDir(f, abs)
WriteFile(f, abs, content) ==
    [q \in DOMAIN f \cup {abs} |-> IF q = abs THEN FileNode(Utf8Encode(content)) ELSE f[q]]

\* fs.remove removes a file, or a directory with everything below it;
\* a missing path is not an error
Remove(f, abs) == [q \in {r \in DOMAIN f : ~IsUnder(abs, r)} |-> f[q]]

\* content of a path as a reader finds it, as an optional value: Null when
\* it is not a file
ContentOf(f, abs) == IF IsFile(f, abs) THEN Some(ReadFile(f, abs)) ELSE Null

\* the files of the disk with their content
Files(f) == [q \in {r \in DOMAIN f : f[r].k = "file"} |-> f[q].c]

----------------------------------------------------------------------------
(* FileManager *)

\* the value a call returned, with the call it answers; thrown is whether
\* the call raised the error instead of returning it, diff the entries of
\* the diff preview it printed
Ret(op, path, success, error) ==
    [op |-> op, path |-> path, success |-> success, error |-> error,
     content |-> Null, overwritten |-> FALSE, files |-> {}, thrown |-> FALSE,
     diff |-> <<>>]

\* resolveWithinWorkspace that compares the two path strings by prefix
resolveWithinWorkspaceByPrefix(filePath) ==
    allowOutsideWorkspace
        \/ StartsWith(PathString(Resolve(filePath)), PathString(workspaceRoot))

\* resolveWithinWorkspace does not throw
resolveWithinWorkspaceOk(filePath) ==
    LET relative == Relative(workspaceRoot, Resolve(filePath))
    IN  ~(~allowOutsideWorkspace /\ (StartsWith(relative, DotDot) \/ IsAbsolute(relative)))

\* pushHistory that leaves the redo stack as it is
pushHistoryKeepRedo(entry) ==
    /\ undoStack' = LET pushed == Append(undoStack, entry)
                    IN  IF Len(pushed) > maxUndoHistory THEN Tail(pushed) ELSE pushed
    /\ UNCHANGED redoStack

\* pushHistory that drops the entry below the new one when over the bound
pushHistoryEvictNewest(entry) ==
    /\ undoStack' = IF Len(undoStack) + 1 > maxUndoHistory
                    THEN Append(SubSeq(undoStack, 1, Len(undoStack) - 1), entry)
                    ELSE Append(undoStack, entry)
    /\ redoStack' = <<>>

\* pushHistory: push, evict the oldest entry when over the bound, clear redo
pushHistory(entry) ==
    /\ undoStack' = LET pushed == Append(undoStack, entry)
                    IN  IF Len(pushed) > maxUndoHistory THEN Tail(pushed) ELSE pushed
    /\ redoStack' = <<>>

\* a history entry that records the new content as the old one
HistoryEntryNoPreImage(type, abs, oldContent, newContent) ==
    [type |-> type, path |-> abs, oldContent |-> newContent, newContent |-> newContent]

HistoryEntry(type, abs, oldContent, newContent) ==
    [type |-> type, path |-> abs, oldContent |-> oldContent, newContent |-> newContent]

LogEntry(type, filePath) == [type |-> type, path |-> filePath]

\* a failed call whose error escapes to the caller
FailThrows(op, filePath, error, seen) ==
    /\ res' = [Ret(op, filePath, FALSE, error) EXCEPT !.thrown = TRUE]
    /\ touched' = seen
    /\ UNCHANGED <<fs, workspaceRoot, allowOutsideWorkspace, maxUndoHistory,
                   operations, undoStack, redoStack>>

\* a failed call that empties the redo stack like a successful mutation
FailClearsRedo(op, filePath, error, seen) ==
    /\ res' = Ret(op, filePath, FALSE, error)
    /\ touched' = seen
    /\ redoStack' = <<>>
    /\ UNCHANGED <<fs, workspaceRoot, allowOutsideWorkspace, maxUndoHistory,
                   operations, undoStack>>

\* a failed call: the catch block returns the error, nothing but the
\* returned value changes
Fail(op, filePath, error, seen) ==
    /\ res' = Ret(op, filePath, FALSE, error)
    /\ touched' = seen
    /\ UNCHANGED <<fs, workspaceRoot, allowOutsideWorkspace, maxUndoHistory,
                   operations, undoStack, redoStack>>

\* the successful end of a mutation that leaves the operation log alone
MutatedWithoutLog(op, type, filePath, abs, newFs, oldContent, newContent, result, seen) ==
    /\ fs' = newFs
    /\ UNCHANGED operations
    /\ pushHistory(HistoryEntry(type, abs, oldContent, newContent))
    /\ res' = result
    /\ touched' = seen
    /\ UNCHANGED <<workspaceRoot, allowOutsideWorkspace, maxUndoHistory>>

\* the successful end of createFile, editFile and deleteFile
Mutated(op, type, filePath, abs, newFs, oldContent, newContent, result, seen) ==
    /\ fs' = newFs
    /\ operations' = Append(operations, LogEntry(type, filePath))
    /\ pushHistory(HistoryEntry(type, abs, oldContent, newContent))
    /\ res' = result
    /\ touched' = seen
    /\ UNCHANGED <<workspaceRoot, allowOutsideWorkspace, maxUndoHistory>>

setOptions(root, allow, max) ==
    /\ workspaceRoot' = IF root # Null THEN Resolve(root[1]) ELSE workspaceRoot
    /\ allowOutsideWorkspace' = IF allow # Null THEN allow[1] ELSE allowOutsideWorkspace
    /\ maxUndoHistory' = IF max # Null THEN max[1] ELSE maxUndoHistory
    /\ res' = Ret("setOptions", <<>>, TRUE, "")
    /\ touched' = {}
    /\ UNCHANGED <<fs, operations, undoStack, redoStack>>

\* createFile that writes over an existing file whatever the overwrite option
createFileAlwaysOverwrites(filePath, content, overwrite) ==
    LET resolvedPath == Resolve(filePath)
        dir == Dirname(resolvedPath)
        made == Prefixes(dir) \ DOMAIN fs
        exists == PathExists(fs, resolvedPath)
    IN  IF ~resolveWithinWorkspaceOk(filePath)
            THEN Fail("createFile", filePath, "OutOfWorkspace", {})
        ELSE IF ~EnsureDirOk(fs, dir)
            THEN Fail("createFile", filePath, "FilesystemFailure", {dir})
        ELSE IF exists /\ ~ReadFileOk(fs, resolvedPath)
            THEN Fail("createFile", filePath, "FilesystemFailure", {dir, resolvedPath})
        ELSE Mutated("createFile", IF exists THEN "overwrite" ELSE "create",
                     filePath, resolvedPath,
                     WriteFile(EnsureDir(fs, dir), resolvedPath, content),
                     IF exists THEN Some(ReadFile(fs, resolvedPath)) ELSE Null,
                     Some(content),
                     [Ret("createFile", filePath, TRUE, "") EXCEPT !.overwritten = exists],
                     made \cup {dir, resolvedPath})

createFile(filePath, content, overwrite) ==
    LET resolvedPath == Resolve(filePath)
        dir == Dirname(resolvedPath)
        made == Prefixes(dir) \ DOMAIN fs
        exists == PathExists(fs, resolvedPath)
    IN  IF ~resolveWithinWorkspaceOk(filePath)
            THEN Fail("createFile", filePath, "OutOfWorkspace", {})
        ELSE IF ~EnsureDirOk(fs, dir)
            THEN Fail("createFile", filePath, "FilesystemFailure", {dir})
        ELSE IF exists /\ ~overwrite
            THEN Fail("createFile", filePath, "AlreadyExists", {dir, resolvedPath})
        ELSE IF exists /\ ~ReadFileOk(fs, resolvedPath)
            THEN Fail("createFile", filePath, "FilesystemFailure", {dir, resolvedPath})
        ELSE Mutated("createFile", IF exists THEN "overwrite" ELSE "create",
                     filePath, resolvedPath,
                     WriteFile(EnsureDir(fs, dir), resolvedPath, content),
                     IF exists THEN Some(ReadFile(fs, resolvedPath)) ELSE Null,
                     Some(content),
                     [Ret("createFile", filePath, TRUE, "") EXCEPT !.overwritten = exists],
                     made \cup {dir, resolvedPath})

\* readFile that reads a missing path as an empty file
readFileOfMissingIsEmpty(filePath) ==
    LET resolvedPath == Resolve(filePath)
    IN  IF ~resolveWithinWorkspaceOk(filePath)
            THEN Fail("readFile", filePath, "OutOfWorkspace", {})
        ELSE IF PathExists(fs, resolvedPath) /\ ~ReadFileOk(fs, resolvedPath)
            THEN Fail("readFile", filePath, "FilesystemFailure", {resolvedPath})
        ELSE /\ res' = [Ret("readFile", filePath, TRUE, "")
                           EXCEPT !.content = IF PathExists(fs, resolvedPath)
                                              THEN Some(ReadFile(fs, resolvedPath))
                                              ELSE Some(<<>>)]
             /\ touched' = {resolvedPath}
             /\ UNCHANGED <<fs, workspaceRoot, allowOutsideWorkspace, maxUndoHistory,
                            operations, undoStack, redoStack>>

readFile(filePath) ==
    LET resolvedPath == Resolve(filePath)
    IN  IF ~resolveWithinWorkspaceOk(filePath)
            THEN Fail("readFile", filePath, "OutOfWorkspace", {})
        ELSE IF ~PathExists(fs, resolvedPath)
            THEN Fail("readFile", filePath, "NotFound", {resolvedPath})
        ELSE IF ~ReadFileOk(fs, resolvedPath)
            THEN Fail("readFile", filePath, "FilesystemFailure", {resolvedPath})
        ELSE /\ res' = [Ret("readFile", filePath, TRUE, "")
                           EXCEPT !.content = Some(ReadFile(fs, resolvedPath))]
             /\ touched' = {resolvedPath}
             /\ UNCHANGED <<fs, workspaceRoot, allowOutsideWorkspace, maxUndoHistory,
                            operations, undoStack, redoStack>>

\* an absent string in a template or a concatenation reads "undefined"
Undefined == <<"u", "n", "d", "e", "f", "i", "n", "e", "d">>
ToStr(opt) == IF opt = Null THEN Undefined ELSE opt[1]

NL == "\n"

\* Array.prototype.splice(position, 0, item)
Splice(lines, position, item) ==
    LET start == IF position < 0 THEN Max(Len(lines) + position, 0)
                 ELSE Min(position, Len(lines))
    IN  SubSeq(lines, 1, start) \o <<item>> \o SubSeq(lines, start + 1, Len(lines))

\* replaceAll with an empty search string puts the replacement around every character
ReplaceAllLiteral(s, search, replace) ==
    IF search = <<>>
    THEN Join([k \in 1..(Len(s) + 1) |->
                  GetSubstitution(replace, <<>>, SubSeq(s, 1, k - 1), SubSeq(s, k, Len(s)))
                      \o (IF k <= Len(s) THEN <<s[k]>> ELSE <<>>)], <<>>)
    ELSE ReplaceAll(s, search, replace)

EditOptions(mode, newContent, search, replace, line) ==
    [mode |-> mode, newContent |-> newContent, search |-> search,
     replace |-> replace, line |-> line]

\* editFile's find-replace mode throws 'Search pattern not found'
PatternMissing(content, options) ==
    options.mode = "find-replace" /\ ~Includes(content, ToStr(options.search))

\* the content editFile writes, as an optional value: Null is the undefined
\* that fs.writeFile rejects
EditedContent(content, options) ==
    IF options.mode = "replace" THEN options.newContent
    ELSE IF options.mode = "insert"
        THEN LET lines == Split(content, NL)
                 position == IF options.line # Null THEN options.line[1] ELSE Len(lines)
                 \* join writes an undefined element as the empty string
                 item == IF options.newContent = Null THEN <<>> ELSE options.newContent[1]
             IN  Some(Join(Splice(lines, position, item), <<NL>>))
    ELSE IF options.mode = "find-replace"
        THEN Some(ReplaceAllLiteral(content, ToStr(options.search), ToStr(options.replace)))
    ELSE IF options.mode = "append"
        THEN Some(content \o <<NL>> \o ToStr(options.newContent))
    ELSE Some(content)

\* one entry of the diff: a removal is printed red with "-", an addition
\* green with "+"
Removal(line) == [sign |-> "-", line |-> line]
Addition(line) == [sign |-> "+", line |-> line]

\* the loop of computeSimpleDiff that pushes the addition before the removal
RECURSIVE DiffLoopAdditionFirst(_, _, _, _)
DiffLoopAdditionFirst(oldLines, newLines, i, out) ==
    IF ~(i < Max(Len(oldLines), Len(newLines))) THEN out
    ELSE LET a == IF i < Len(oldLines) THEN Some(oldLines[i + 1]) ELSE Null
             b == IF i < Len(newLines) THEN Some(newLines[i + 1]) ELSE Null
         IN  IF a = b THEN DiffLoopAdditionFirst(oldLines, newLines, i + 1, out)
             ELSE DiffLoopAdditionFirst(oldLines, newLines, i + 1,
                      out \o (IF b # Null THEN <<Addition(b[1])>> ELSE <<>>)
                          \o (IF a # Null THEN <<Removal(a[1])>> ELSE <<>>))

\* the loop of computeSimpleDiff from index i on, out being the entries
\* pushed so far
RECURSIVE DiffLoop(_, _, _, _)
DiffLoop(oldLines, newLines, i, out) ==
    IF ~(i < Max(Len(oldLines), Len(newLines))) THEN out
    ELSE LET a == IF i < Len(oldLines) THEN Some(oldLines[i + 1]) ELSE Null
             b == IF i < Len(newLines) THEN Some(newLines[i + 1]) ELSE Null
         IN  IF a = b THEN DiffLoop(oldLines, newLines, i + 1, out)
             ELSE DiffLoop(oldLines, newLines, i + 1,
                      out \o (IF a # Null THEN <<Removal(a[1])>> ELSE <<>>)
                          \o (IF b # Null THEN <<Addition(b[1])>> ELSE <<>>))

\* computeSimpleDiff: the entries it joins into the text it returns
computeSimpleDiff(oldText, newText) ==
    DiffLoop(Split(oldText, NL), Split(newText, NL), 0, <<>>)

\* the options with showDiff set
ShowDiff(options) ==
    [f \in DOMAIN options \cup {"showDiff"} |->
        IF f = "showDiff" THEN TRUE ELSE options[f]]

editFile(filePath, options) ==
    LET resolvedPath == Resolve(filePath)
    IN  IF ~resolveWithinWorkspaceOk(filePath)
            THEN Fail("editFile", filePath, "OutOfWorkspace", {})
        ELSE IF ~PathExists(fs, resolvedPath)
            THEN Fail("editFile", filePath, "NotFound", {resolvedPath})
        ELSE IF ~ReadFileOk(fs, resolvedPath)
            THEN Fail("editFile", filePath, "FilesystemFailure", {resolvedPath})
        ELSE LET oldContent == ReadFile(fs, resolvedPath)
                 content == EditedContent(oldContent, options)
             IN  IF PatternMissing(oldContent, options)
                     THEN Fail("editFile", filePath, "PatternNotFound", {resolvedPath})
                 ELSE IF content = Null
                     THEN Fail("editFile", filePath, "FilesystemFailure", {resolvedPath})
                 ELSE Mutated("editFile", "edit", filePath, resolvedPath,
                              WriteFile(fs, resolvedPath, content[1]),
                              Some(oldContent), content,
                              [Ret("editFile", filePath, TRUE, "") EXCEPT !.diff =
                                  IF "showDiff" \in DOMAIN options /\ options.showDiff
                                  THEN computeSimpleDiff(oldContent, content[1])
                                  ELSE <<>>],
                              {resolvedPath})

deleteFile(filePath) ==
    LET resolvedPath == Resolve(filePath)
    IN  IF ~resolveWithinWorkspaceOk(filePath)
            THEN Fail("deleteFile", filePath, "OutOfWorkspace", {})
        ELSE IF ~PathExists(fs, resolvedPath)
            THEN Fail("deleteFile", filePath, "NotFound", {resolvedPath})
        ELSE IF ~ReadFileOk(fs, resolvedPath)
            THEN Fail("deleteFile", filePath, "FilesystemFailure", {resolvedPath})
        ELSE Mutated("deleteFile", "delete", filePath, resolvedPath,
                     Remove(fs, resolvedPath),
                     Some(ReadFile(fs, resolvedPath)), Null,
                     Ret("deleteFile", filePath, TRUE, ""),
                     {resolvedPath})

DEFAULT_IGNORES ==
    {<<"n", "o", "d", "e", "_", "m", "o", "d", "u", "l", "e", "s">>,
     <<".", "g", "i", "t">>,
     <<"d", "i", "s", "t">>,
     <<"b", "u", "i", "l", "d">>}

IgnoreFile == <<".", "a", "i", "-", "a", "g", "e", "n", "t", "i", "g", "n", "o", "r", "e">>

\* String.prototype.trim, for blanks
RECURSIVE Trim(_)
Trim(s) ==
    IF s # <<>> /\ s[1] = " " THEN Trim(Tail(s))
    ELSE IF s # <<>> /\ s[Len(s)] = " " THEN Trim(SubSeq(s, 1, Len(s) - 1))
    ELSE s

\* loadIgnorePatterns: the default names and the non-blank lines of the
\* ignore file of the workspace root
loadIgnorePatterns(f) ==
    LET ignorePath == Append(workspaceRoot, IgnoreFile)
        lines == Split(ReadFile(f, ignorePath), NL)
    IN  IF PathExists(f, ignorePath)
        THEN DEFAULT_IGNORES \cup ({Trim(lines[i]) : i \in 1..Len(lines)} \ {<<>>})
        ELSE DEFAULT_IGNORES

\* fs.readdir: the names directly under a directory
Readdir(f, abs) == {q[Len(q)] : q \in {r \in DOMAIN f : r # abs /\ Dirname(r) = abs}}

listFiles(dirPath, includeDirs, includeAll) ==
    LET resolvedPath == Resolve(dirPath)
        ignorePath == Append(workspaceRoot, IgnoreFile)
    IN  IF ~resolveWithinWorkspaceOk(dirPath)
            THEN Fail("listFiles", dirPath, "OutOfWorkspace", {})
        ELSE IF ~PathExists(fs, resolvedPath)
            THEN Fail("listFiles", dirPath, "NotFound", {resolvedPath})
        ELSE IF IsDir(fs, ignorePath) \/ ~IsDir(fs, resolvedPath)
            THEN Fail("listFiles", dirPath, "FilesystemFailure", {resolvedPath, ignorePath})
        ELSE /\ res' = [Ret("listFiles", dirPath, TRUE, "") EXCEPT !.files =
                           {[name |-> n, isDirectory |-> IsDir(fs, Append(resolvedPath, n))] :
                              n \in {m \in Readdir(fs, resolvedPath) :
                                       /\ includeAll \/ m \notin loadIgnorePatterns(fs)
                                       /\ includeDirs \/ ~IsDir(fs, Append(resolvedPath, m))}}]
             /\ touched' = {resolvedPath, ignorePath}
             /\ UNCHANGED <<fs, workspaceRoot, allowOutsideWorkspace, maxUndoHistory,
                            operations, undoStack, redoStack>>

\* what undo and redo do to the disk for the content they restore:
\* remove the path when it is null, else write it below its directory
RestoreOk(f, abs, content) ==
    content = Null \/ (EnsureDirOk(f, Dirname(abs)) /\ WriteFileOk(EnsureDir(f, Dirname(abs)), abs))

\* Restore that empties the file where the content to restore is null
RestoreNeverRemoves(f, abs, content) ==
    IF content = Null THEN WriteFile(EnsureDir(f, Dirname(abs)), abs, <<>>)
    ELSE WriteFile(EnsureDir(f, Dirname(abs)), abs, content[1])

Restore(f, abs, content) ==
    IF content = Null THEN Remove(f, abs)
    ELSE WriteFile(EnsureDir(f, Dirname(abs)), abs, content[1])
RestoreSeen(f, abs, content) ==
    IF content = Null THEN {r \in DOMAIN f : IsUnder(abs, r)} \cup {abs}
    ELSE (Prefixes(Dirname(abs)) \ DOMAIN f) \cup {Dirname(abs), abs}

\* undo that reports success when there is nothing to undo
undoOfNothingSucceeds ==
    IF undoStack = <<>>
    THEN /\ res' = Ret("undo", <<>>, TRUE, "")
         /\ touched' = {}
         /\ UNCHANGED <<fs, workspaceRoot, allowOutsideWorkspace, maxUndoHistory,
                        operations, undoStack, redoStack>>
    ELSE LET op == undoStack[Len(undoStack)]
             ok == RestoreOk(fs, op.path, op.oldContent)
         IN  /\ undoStack' = SubSeq(undoStack, 1, Len(undoStack) - 1)
             /\ fs' = IF ok THEN Restore(fs, op.path, op.oldContent) ELSE fs
             /\ redoStack' = IF ok THEN Append(redoStack, op) ELSE redoStack
             /\ res' = Ret("undo", <<>>, ok, IF ok THEN "" ELSE "FilesystemFailure")
             /\ touched' = RestoreSeen(fs, op.path, op.oldContent)
             /\ UNCHANGED <<workspaceRoot, allowOutsideWorkspace, maxUndoHistory, operations>>

undo ==
    IF undoStack = <<>>
    THEN Fail("undo", <<>>, "NothingToUndo", {})
    ELSE LET op == undoStack[Len(undoStack)]
             ok == RestoreOk(fs, op.path, op.oldContent)
         IN  /\ undoStack' = SubSeq(undoStack, 1, Len(undoStack) - 1)
             /\ fs' = IF ok THEN Restore(fs, op.path, op.oldContent) ELSE fs
             /\ redoStack' = IF ok THEN Append(redoStack, op) ELSE redoStack
             /\ res' = Ret("undo", <<>>, ok, IF ok THEN "" ELSE "FilesystemFailure")
             /\ touched' = RestoreSeen(fs, op.path, op.oldContent)
             /\ UNCHANGED <<workspaceRoot, allowOutsideWorkspace, maxUndoHistory, operations>>

redo ==
    IF redoStack = <<>>
    THEN Fail("redo", <<>>, "NothingToRedo", {})
    ELSE LET op == redoStack[Len(redoStack)]
             ok == RestoreOk(fs, op.path, op.newContent)
         IN  /\ redoStack' = SubSeq(redoStack, 1, Len(redoStack) - 1)
             /\ fs' = IF ok THEN Restore(fs, op.path, op.newContent) ELSE fs
             /\ undoStack' = IF ok THEN Append(undoStack, op) ELSE undoStack
             /\ res' = Ret("redo", <<>>, ok, IF ok THEN "" ELSE "FilesystemFailure")
             /\ touched' = RestoreSeen(fs, op.path, op.newContent)
             /\ UNCHANGED <<workspaceRoot, allowOutsideWorkspace, maxUndoHistory, operations>>

clearHistory ==
    /\ operations' = <<>>
    /\ undoStack' = <<>>
    /\ redoStack' = <<>>
    /\ res' = Ret("clearHistory", <<>>, TRUE, "")
    /\ touched' = {}
    /\ UNCHANGED <<fs, workspaceRoot, allowOutsideWorkspace, maxUndoHistory>>

----------------------------------------------------------------------------
(* Runs within the bounds *)

\* the disk before the first call: the working directory exists and is empty
InitFs == [q \in Prefixes(Cwd) |-> DirNode]

MutationOps == {"createFile", "editFile", "deleteFile"}

\* The caller's position in the sequence "n successful mutations on empty
\* stacks, then n calls of undo, then n calls of redo": snap is the files
\* after the n-th mutation; any other order of calls ends the sequence.
\* The same record follows the sequence "a successful deleteFile, then at
\* once undo, then at once redo": del is how far the caller is in it, at the
\* path deleted and bytes what the file held before the deleteFile.
TrkStart(f) ==
    [phase |-> "mutating", n |-> 0, undos |-> 0, redos |-> 0, snap |-> Files(f),
     del |-> "none", at |-> <<>>, bytes |-> <<>>]
TrkOff ==
    [phase |-> "off", n |-> 0, undos |-> 0, redos |-> 0, snap |-> Files(InitFs),
     del |-> "none", at |-> <<>>, bytes |-> <<>>]
TrackDelete(t) ==
    IF res'.op = "deleteFile" /\ res'.success
    THEN [t EXCEPT !.del = "deleted", !.at = Resolve(res'.path),
                   !.bytes = fs[Resolve(res'.path)].c]
    ELSE IF res'.op = "undo" /\ trk.del = "deleted"
    THEN [t EXCEPT !.del = "undone", !.at = trk.at, !.bytes = trk.bytes]
    ELSE IF res'.op = "redo" /\ trk.del = "undone"
    THEN [t EXCEPT !.del = "redone", !.at = trk.at, !.bytes = trk.bytes]
    ELSE [t EXCEPT !.del = "none", !.at = <<>>, !.bytes = <<>>]
Track ==
    trk' = TrackDelete(
           LET op == res'.op
           IN  IF op = "clearHistory" THEN TrkStart(fs')
               ELSE IF op \in MutationOps
                   THEN IF ~res'.success THEN trk
                        ELSE IF trk.phase = "mutating"
                             THEN [trk EXCEPT !.n = @ + 1, !.snap = Files(fs')]
                        ELSE TrkOff
               ELSE IF op = "undo"
                   THEN IF trk.phase \in {"mutating", "undoing"} /\ trk.undos < trk.n
                        THEN [trk EXCEPT !.phase = "undoing", !.undos = @ + 1]
                        ELSE TrkOff
               ELSE IF op = "redo"
                   THEN IF /\ trk.phase \in {"undoing", "redoing"}
                           /\ trk.undos = trk.n
                           /\ trk.redos < trk.n
                        THEN [trk EXCEPT !.phase = "redoing", !.redos = @ + 1]
                        ELSE TrkOff
               ELSE trk)

\* a call of createFile, editFile or deleteFile within the bounds of the run
Counted(call) ==
    /\ mutations < MaxOps
    /\ call
    /\ \A q \in DOMAIN fs' : Len(fs'[q].c) <= MaxContentLen
    /\ mutations' = IF res'.success THEN mutations + 1 ELSE mutations
    /\ Track
Uncounted(call) == call /\ UNCHANGED mutations /\ Track

----------------------------------------------------------------------------
(* Planner and Executor *)

NoPlan == [id |-> 0, steps |-> <<>>]
Plan(id, steps) == [id |-> id, steps |-> steps]

\* the value executeStep returns
StepOk(n) == [success |-> TRUE, error |-> "", actions |-> n]
StepFailed(error) == [success |-> FALSE, error |-> error, actions |-> 0]

\* the value executePlan returns, or the error a Planner call throws
NoOutcome == [kind |-> "none", success |-> FALSE, completedSteps |-> Null, results |-> <<>>]
Returned(success, completedSteps, stepResults) ==
    [kind |-> "returned", success |-> success,
     completedSteps |-> completedSteps, results |-> stepResults]
Threw(error) == [kind |-> error, success |-> FALSE, completedSteps |-> Null, results |-> <<>>]

\* one object of the JSON array the model answers with
Action(action, path, content, mode, search) ==
    [action |-> action, path |-> path, content |-> content, mode |-> mode, search |-> search]

\* createPlan when the model call succeeds: steps is parseSteps of the reply,
\* tick is whether the clock moved since the last reading
createPlan(steps, tick) ==
    /\ planState = "Idle"
    /\ clock' = clock + tick
    /\ plans' = Append(plans, Plan(clock', steps))
    /\ outcome' = Returned(TRUE, Null, <<>>)
    /\ UNCHANGED <<planState, pc, cur, stepIndex, results, actions, actionResults,
                   stepResult, invoked, applied, interpreterFailed, actionFailed,
                   planEntries>>
    /\ UNCHANGED <<fmVars, mutations, trk>>

\* createPlan when the model call returns success = false
createPlanFails ==
    /\ planState = "Idle"
    /\ outcome' = Threw("Failed to create plan")
    /\ UNCHANGED <<clock, plans, planState, pc, cur, stepIndex, results, actions,
                   actionResults, stepResult, invoked, applied, interpreterFailed,
                   actionFailed, planEntries>>
    /\ UNCHANGED <<fmVars, mutations, trk>>

\* this.plans.find(p => p.id === planId)
FindPlan(planId) ==
    LET hits == {k \in 1..Len(plans) : plans[k].id = planId}
    IN  IF hits = {} THEN Null
        ELSE Some(plans[CHOOSE k \in hits : \A m \in hits : k <= m])

\* executePlan up to the head of its loop
executePlan(planId) ==
    /\ planState = "Idle"
    /\ IF FindPlan(planId) = Null
       THEN /\ outcome' = Threw("Plan not found")
            /\ UNCHANGED <<planState, pc, cur, stepIndex, results>>
       ELSE /\ cur' = FindPlan(planId)[1]
            /\ results' = <<>>
            /\ stepIndex' = 0
            /\ planState' = "Running"
            /\ pc' = "loop"
            /\ UNCHANGED outcome
    /\ UNCHANGED <<clock, plans, actions, actionResults, stepResult, invoked, applied,
                   interpreterFailed, actionFailed, planEntries>>
    /\ UNCHANGED <<fmVars, mutations, trk>>

\* the loop of executePlan is over: the plan completed
executePlanReturns ==
    /\ pc = "loop"
    /\ ~(stepIndex < Len(cur.steps))
    /\ outcome' = Returned(TRUE, Null, results)
    /\ planState' = "Completed"
    /\ pc' = "done"
    /\ UNCHANGED <<clock, plans, cur, stepIndex, results, actions, actionResults,
                   stepResult, invoked, applied, interpreterFailed, actionFailed,
                   planEntries>>
    /\ UNCHANGED <<fmVars, mutations, trk>>

\* executeStep that runs an empty list of actions when the model call fails
executeStepGoesOnAfterFailure(reply) ==
    /\ pc = "loop"
    /\ stepIndex < Len(cur.steps)
    /\ invoked' = Append(invoked, stepIndex)
    /\ applied' = <<>>
    /\ actions' = IF reply = Null THEN <<>> ELSE reply[1]
    /\ actionResults' = <<>>
    /\ pc' = "actions"
    /\ interpreterFailed' = (interpreterFailed \/ reply = Null)
    /\ UNCHANGED stepResult
    /\ UNCHANGED <<clock, plans, planState, cur, stepIndex, results, outcome,
                   actionFailed, planEntries>>
    /\ UNCHANGED <<fmVars, mutations, trk>>

\* executePlan whose loop runs once more than the plan has steps
executeStepPastTheEnd(reply) ==
    /\ pc = "loop"
    /\ stepIndex <= Len(cur.steps)
    /\ invoked' = Append(invoked, stepIndex)
    /\ applied' = <<>>
    /\ IF reply = Null
       THEN /\ stepResult' = StepFailed("InterpreterFailure")
            /\ interpreterFailed' = TRUE
            /\ pc' = "returned"
            /\ UNCHANGED <<actions, actionResults>>
       ELSE /\ actions' = reply[1]
            /\ actionResults' = <<>>
            /\ pc' = "actions"
            /\ UNCHANGED <<stepResult, interpreterFailed>>
    /\ UNCHANGED <<clock, plans, planState, cur, stepIndex, results, outcome,
                   actionFailed, planEntries>>
    /\ UNCHANGED <<fmVars, mutations, trk>>

\* executeStep up to its loop: reply is Null when the model call throws or
\* returns success = false, else the array parseActions finds in the reply
executeStep(reply) ==
    /\ pc = "loop"
    /\ stepIndex < Len(cur.steps)
    /\ invoked' = Append(invoked, stepIndex)
    /\ applied' = <<>>
    /\ IF reply = Null
       THEN /\ stepResult' = StepFailed("InterpreterFailure")
            /\ interpreterFailed' = TRUE
            /\ pc' = "returned"
            /\ UNCHANGED <<actions, actionResults>>
       ELSE /\ actions' = reply[1]
            /\ actionResults' = <<>>
            /\ pc' = "actions"
            /\ UNCHANGED <<stepResult, interpreterFailed>>
    /\ UNCHANGED <<clock, plans, planState, cur, stepIndex, results, outcome,
                   actionFailed, planEntries>>
    /\ UNCHANGED <<fmVars, mutations, trk>>

\* the options executeAction hands to editFile for an edit action: mode,
\* newContent and search, and neither replace nor line
editOptionsOf(action) ==
    EditOptions(IF action.mode = Null THEN "replace" ELSE action.mode[1],
                action.content, action.search, Null, Null)

\* executeAction that takes an unknown kind of action for a read
executeActionUnknownIsRead(action) ==
    IF action.action = "create"
        THEN Counted(createFile(action.path, ToStr(action.content), TRUE))
    ELSE IF action.action = "edit"
        THEN Counted(editFile(action.path, editOptionsOf(action)))
    ELSE IF action.action = "delete"
        THEN Counted(deleteFile(action.path))
    ELSE Uncounted(readFile(action.path))

\* executeAction: the FileManager call the action asks for
executeAction(action) ==
    IF action.action = "create"
        THEN Counted(createFile(action.path, ToStr(action.content), TRUE))
    ELSE IF action.action = "read"
        THEN Uncounted(readFile(action.path))
    ELSE IF action.action = "edit"
        THEN Counted(editFile(action.path, editOptionsOf(action)))
    ELSE IF action.action = "delete"
        THEN Counted(deleteFile(action.path))
    ELSE /\ res' = Ret("executeAction", action.path, FALSE, "UnknownAction")
         /\ touched' = {}
         /\ UNCHANGED <<fs, workspaceRoot, allowOutsideWorkspace, maxUndoHistory,
                        operations, undoStack, redoStack, mutations, trk>>

\* executeStep that goes on with the next action after a failed one
executeStepActionSkipsFailure ==
    /\ pc = "actions"
    /\ Len(actionResults) < Len(actions)
    /\ LET action == actions[Len(actionResults) + 1]
       IN  /\ executeAction(action)
           /\ applied' = Append(applied, action)
    /\ actionResults' = Append(actionResults, res')
    /\ planEntries' = IF res'.op \in MutationOps /\ res'.success
                      THEN Append(planEntries, undoStack'[Len(undoStack')])
                      ELSE planEntries
    /\ actionFailed' = (actionFailed \/ ~res'.success)
    /\ UNCHANGED <<stepResult, pc>>
    /\ UNCHANGED <<clock, plans, planState, cur, stepIndex, results, outcome, actions,
                   invoked, interpreterFailed>>

\* executeStep that takes the actions from the end of the array
executeStepActionReversed ==
    /\ pc = "actions"
    /\ Len(actionResults) < Len(actions)
    /\ LET action == actions[Len(actions) - Len(actionResults)]
       IN  /\ executeAction(action)
           /\ applied' = Append(applied, action)
    /\ actionResults' = Append(actionResults, res')
    /\ planEntries' = IF res'.op \in MutationOps /\ res'.success
                      THEN Append(planEntries, undoStack'[Len(undoStack')])
                      ELSE planEntries
    /\ IF res'.success
       THEN UNCHANGED <<stepResult, actionFailed, pc>>
       ELSE /\ stepResult' = StepFailed(res'.error)
            /\ actionFailed' = TRUE
            /\ pc' = "returned"
    /\ UNCHANGED <<clock, plans, planState, cur, stepIndex, results, outcome, actions,
                   invoked, interpreterFailed>>

\* one turn of the loop of executeStep
executeStepAction ==
    /\ pc = "actions"
    /\ Len(actionResults) < Len(actions)
    /\ LET action == actions[Len(actionResults) + 1]
       IN  /\ executeAction(action)
           /\ applied' = Append(applied, action)
    /\ actionResults' = Append(actionResults, res')
    /\ planEntries' = IF res'.op \in MutationOps /\ res'.success
                      THEN Append(planEntries, undoStack'[Len(undoStack')])
                      ELSE planEntries
    /\ IF res'.success
       THEN UNCHANGED <<stepResult, actionFailed, pc>>
       ELSE /\ stepResult' = StepFailed(res'.error)
            /\ actionFailed' = TRUE
            /\ pc' = "returned"
    /\ UNCHANGED <<clock, plans, planState, cur, stepIndex, results, outcome, actions,
                   invoked, interpreterFailed>>

\* the loop of executeStep is over: the step succeeded
executeStepReturns ==
    /\ pc = "actions"
    /\ ~(Len(actionResults) < Len(actions))
    /\ stepResult' = StepOk(Len(actionResults))
    /\ pc' = "returned"
    /\ UNCHANGED <<clock, plans, planState, cur, stepIndex, results, outcome, actions,
                   actionResults, invoked, applied, interpreterFailed, actionFailed,
                   planEntries>>
    /\ UNCHANGED <<fmVars, mutations, trk>>

\* executePlan that goes on to the next step after a failed one
executePlanStepDoneGoesOn ==
    /\ pc = "returned"
    /\ results' = Append(results, stepResult)
    /\ stepIndex' = stepIndex + 1
    /\ pc' = "loop"
    /\ UNCHANGED <<outcome, planState>>
    /\ UNCHANGED <<clock, plans, cur, actions, actionResults, stepResult, invoked,
                   applied, interpreterFailed, actionFailed, planEntries>>
    /\ UNCHANGED <<fmVars, mutations, trk>>

\* executePlan that undoes the last mutation when a step fails
executePlanStepDoneRollsBack ==
    /\ pc = "returned"
    /\ results' = Append(results, stepResult)
    /\ IF ~stepResult.success
       THEN /\ outcome' = Returned(FALSE, Some(stepIndex), results')
            /\ planState' = "Failed"
            /\ pc' = "done"
            /\ UNCHANGED stepIndex
            /\ Uncounted(undo)
       ELSE /\ stepIndex' = stepIndex + 1
            /\ pc' = "loop"
            /\ UNCHANGED <<outcome, planState>>
            /\ UNCHANGED <<fmVars, mutations, trk>>
    /\ UNCHANGED <<clock, plans, cur, actions, actionResults, stepResult, invoked,
                   applied, interpreterFailed, actionFailed, planEntries>>

\* executePlan after executeStep returned: push the result, stop on a failure
executePlanStepDone ==
    /\ pc = "returned"
    /\ results' = Append(results, stepResult)
    /\ IF ~stepResult.success
       THEN /\ outcome' = Returned(FALSE, Some(stepIndex), results')
            /\ planState' = "Failed"
            /\ pc' = "done"
            /\ UNCHANGED stepIndex
       ELSE /\ stepIndex' = stepIndex + 1
            /\ pc' = "loop"
            /\ UNCHANGED <<outcome, planState>>
    /\ UNCHANGED <<clock, plans, cur, actions, actionResults, stepResult, invoked,
                   applied, interpreterFailed, actionFailed, planEntries>>
    /\ UNCHANGED <<fmVars, mutations, trk>>

----------------------------------------------------------------------------
(* The state after construction *)

InitFm ==
    /\ fs = InitFs
    /\ workspaceRoot = Cwd
    /\ allowOutsideWorkspace = FALSE
    /\ maxUndoHistory \in 1..MaxHist
    /\ operations = <<>>
    /\ undoStack = <<>>
    /\ redoStack = <<>>
    /\ res = Ret("new", <<>>, TRUE, "")
    /\ touched = {}
    /\ mutations = 0
    /\ trk = TrkStart(InitFs)

vars == <<fmVars, mutations, trk, planVars, hostVars>>

\* Planner and Executor after construction
InitPlan ==
    /\ clock = 0
    /\ plans = <<>>
    /\ planState = "Idle"
    /\ pc = "idle"
    /\ cur = NoPlan
    /\ stepIndex = 0
    /\ results = <<>>
    /\ outcome = NoOutcome
    /\ actions = <<>>
    /\ actionResults = <<>>
    /\ stepResult = StepOk(0)
    /\ invoked = <<>>
    /\ applied = <<>>
    /\ interpreterFailed = FALSE
    /\ actionFailed = FALSE
    /\ planEntries = <<>>

\* what processInput settled to: resolved with a result, or rejected
NoAnswer == [kind |-> "none", input |-> "", success |-> FALSE, exit |-> FALSE]
Resolved(input, success, exit) ==
    [kind |-> "resolved", input |-> input, success |-> success, exit |-> exit]
Rejected(input) == [kind |-> "rejected", input |-> input, success |-> FALSE, exit |-> FALSE]

\* what createCompletionWithRetry came to: nothing yet, the response of a
\* call, the error of a call, or undefined
NoCompletion == [kind |-> "none", of |-> 0]
Response(n) == [kind |-> "response", of |-> n]
ThrownError(n) == [kind |-> "error", of |-> n]
UndefinedValue == [kind |-> "undefined", of |-> 0]

\* GroqClient before any request, with the defaults of the options
InitRetry ==
    retry = [pc |-> "idle", maxRetries |-> 2, baseDelayMs |-> 500, attempt |-> 0,
             calls |-> <<>>, delays |-> <<>>, completion |-> NoCompletion]

\* CLI and Agent after construction, with the default preferences
InitHost ==
    /\ InitRetry
    /\ running = FALSE
    /\ hostPc = "constructed"
    /\ answer = NoAnswer
    /\ safeMode = TRUE
    /\ asked = Null
    /\ pending = <<>>
    /\ inFlight = <<>>

Init == InitFm /\ InitPlan /\ InitHost

----------------------------------------------------------------------------
(* The engine driven by a single caller *)

\* the paths, contents and options the caller passes
PathA == <<"a">>
PathAB == <<"a", "/", "b">>
PathUp == <<".", ".", "/", "w", "2", "/", "a">>
RootW == <<"/", "w">>
RootW2 == <<"/", "w", "2">>
EditRequests ==
    {EditOptions("replace", Some(<<"y">>), Null, Null, Null),
     EditOptions("insert", Some(<<"y">>), Null, Null, Some(0)),
     EditOptions("find-replace", Null, Some(<<"x">>), Some(<<"y">>), Null),
     EditOptions("append", Some(<<"x">>), Null, Null, Null)}

\* calls made by the user, outside any plan run
UserMutation(call) == Counted(call) /\ UNCHANGED <<planVars, hostVars>>
UserCall(call) == Uncounted(call) /\ UNCHANGED <<planVars, hostVars>>

FilePaths == {PathA, PathAB}

CallSetOptions == \E max \in 1..MaxHist : UserCall(setOptions(Null, Null, Some(max)))
CallCreateFile == \E p \in FilePaths, overwrite \in BOOLEAN :
                    UserMutation(createFile(p, <<"x">>, overwrite))
CallReadFile == \E p \in {PathA, PathUp} : UserCall(readFile(p))
CallEditFile == \E o \in EditRequests : UserMutation(editFile(PathA, o))
CallDeleteFile == \E p \in FilePaths : UserMutation(deleteFile(p))
CallListFiles == \E includeDirs \in BOOLEAN : UserCall(listFiles(PathA, includeDirs, FALSE))
CallUndo == UserCall(undo)
CallRedo == UserCall(redo)
CallClearHistory == UserCall(clearHistory)

Next ==
    \/ CallSetOptions
    \/ CallCreateFile
    \/ CallReadFile
    \/ CallEditFile
    \/ CallDeleteFile
    \/ CallListFiles
    \/ CallUndo
    \/ CallRedo
    \/ CallClearHistory

Spec == Init /\ [][Next]_vars

----------------------------------------------------------------------------
(* The engine under changing workspace options *)

SandboxFilePaths == {PathA, PathUp}

SbSetOptions ==
    \E root \in {Null, Some(RootW), Some(RootW2)}, allow \in {Null, Some(TRUE), Some(FALSE)} :
        UserCall(setOptions(root, allow, Null))
SbCreateFile == \E p \in SandboxFilePaths : UserMutation(createFile(p, <<"x">>, TRUE))
SbReadFile == \E p \in SandboxFilePaths : UserCall(readFile(p))
SbEditFile ==
    \E p \in SandboxFilePaths :
        UserMutation(editFile(p, EditOptions("replace", Some(<<"y">>), Null, Null, Null)))
SbDeleteFile == \E p \in SandboxFilePaths : UserMutation(deleteFile(p))
SbListFiles == \E d \in {<<".">>, <<".", ".">>} : UserCall(listFiles(d, TRUE, FALSE))
SbUndo == UserCall(undo)
SbRedo == UserCall(redo)

SandboxNext ==
    \/ SbSetOptions
    \/ SbCreateFile
    \/ SbReadFile
    \/ SbEditFile
    \/ SbDeleteFile
    \/ SbListFiles
    \/ SbUndo
    \/ SbRedo

SandboxInit == Init /\ maxUndoHistory = MaxHist

SandboxSpec == SandboxInit /\ [][SandboxNext]_vars

\* paths a caller may pass: relative, absolute, with '.' and '..' segments,
\* siblings of the roots that share a name prefix with them
SandboxPaths ==
    {<<"a">>,
     <<"a", "/", "b">>,
     <<".", ".", "/", "w", "2", "/", "a">>,
     <<"/", "w", "2", "/", "a">>,
     <<"/", "w", "2">>,
     <<"/", "w">>,
     <<"/">>,
     <<".", ".">>,
     <<".">>,
     <<"/", "w", "/", ".", ".", "/", "w", "2">>,
     <<"/", "w", "/", "a", "/", ".", ".", "/", ".", ".", "/", "w", "2", "2">>,
     <<"a", "/", ".", ".", "/", ".", ".">>,
     <<"/", "w", "2", "/", ".", ".", "/", "w", "/", "a">>,
     <<"/", "x", "/", "w">>,
     <<"/", "/", "w", "/", "/", "a", "/">>}

FileOps == {"createFile", "readFile", "editFile", "deleteFile", "listFiles"}

\* C1: with allowOutsideWorkspace false, resolveWithinWorkspace throws for
\* every path whose normal absolute form is neither the workspace root nor
\* below it, and a call with such a path returns the out-of-workspace error
\* without touching the disk; with allowOutsideWorkspace true the same paths
\* resolve, a call with one is not rejected by the sandbox, and a file it
\* creates is at the normal absolute form of the path.
C1_OutsideRejected ==
    /\ \A P \in SandboxPaths :
          ~IsUnder(workspaceRoot, Resolve(P)) =>
              (resolveWithinWorkspaceOk(P) <=> allowOutsideWorkspace)
    /\ (res.op \in FileOps /\ ~IsUnder(workspaceRoot, Resolve(res.path))) =>
          IF allowOutsideWorkspace
          THEN /\ res.error # "OutOfWorkspace"
               /\ (res.op = "createFile" /\ res.success) =>
                      IsFile(fs, Resolve(res.path))
          ELSE ~res.success /\ res.error = "OutOfWorkspace" /\ touched = {}

\* C1 happens: '..' traversal into the sibling /w2 of the root /w is rejected
C1_Witness ==
    /\ workspaceRoot = Cwd /\ ~allowOutsideWorkspace
    /\ res.op = "createFile" /\ res.path = PathUp
    /\ ~res.success /\ res.error = "OutOfWorkspace"
    /\ ~PathExists(fs, Resolve(PathUp))

\* C2 (as claimed): while allowOutsideWorkspace is false, every path a call
\* reads, writes, makes or removes is the current workspace root or below it.
C2_AccessInsideWorkspace ==
    ~allowOutsideWorkspace => \A q \in touched : IsUnder(workspaceRoot, q)

----------------------------------------------------------------------------
(* A plan run on a new engine, and undo after it *)

StepLists == {<<>>, <<"s1">>, <<"s1", "s2", "s3">>}

CreateA == Action("create", PathA, Some(<<"x">>), Null, Null)
EditA == Action("edit", PathA, Some(<<"y">>), Null, Null)
DeleteA == Action("delete", PathA, Null, Null, Null)
ReadAB == Action("read", PathAB, Null, Null, Null)
MoveA == Action("move", PathA, Null, Null, Null)

\* the arrays parseActions returns
ActionLists ==
    {<<>>, <<CreateA>>, <<CreateA, EditA>>, <<DeleteA>>, <<CreateA, ReadAB>>, <<MoveA>>}

PlCreatePlan == \E steps \in StepLists, tick \in {0, 1} :
                    /\ Len(plans) < MaxPlans
                    /\ createPlan(steps, tick)
                    /\ UNCHANGED hostVars
PlCreatePlanFails == createPlanFails /\ outcome.kind = "none" /\ UNCHANGED hostVars
PlExecutePlan == \E planId \in 0..MaxPlans : executePlan(planId) /\ UNCHANGED hostVars
PlExecuteStep == \E reply \in {Null} \cup {Some(l) : l \in ActionLists} :
                     executeStep(reply) /\ UNCHANGED hostVars
PlAction == executeStepAction /\ UNCHANGED hostVars
PlStepReturns == executeStepReturns /\ UNCHANGED hostVars
PlStepDone == executePlanStepDone /\ UNCHANGED hostVars
PlReturns == executePlanReturns /\ UNCHANGED hostVars
PlUndo == pc = "done" /\ UserCall(undo)

PlanNext ==
    \/ PlCreatePlan
    \/ PlCreatePlanFails
    \/ PlExecutePlan
    \/ PlExecuteStep
    \/ PlAction
    \/ PlStepReturns
    \/ PlStepDone
    \/ PlReturns
    \/ PlUndo

PlanSpec == Init /\ [][PlanNext]_vars

----------------------------------------------------------------------------
(* Undo and redo *)

\* C3 (as claimed): after n successful mutations on empty stacks, n calls of
\* undo and then n calls of redo, every file exists with exactly the content
\* it had after the n-th mutation.
C3_UndoRedoInverse ==
    (trk.phase = "redoing" /\ trk.redos = trk.n) => Files(fs) = trk.snap

Last(seq) == seq[Len(seq)]
Front(seq) == SubSeq(seq, 1, Len(seq) - 1)

MutationDone == res'.op \in MutationOps /\ res'.success

\* C4: every successful createFile, editFile or deleteFile leaves the redo
\* stack empty, so that a redo right after it fails with 'Nothing to redo';
\* a successful redo moves the top redo entry onto the undo stack and keeps
\* the redo entries below it.
C4_MutationClearsRedo ==
    [][/\ MutationDone => redoStack' = <<>>
       /\ (res'.op = "redo" /\ redoStack = <<>>) =>
              (~res'.success /\ res'.error = "NothingToRedo")
       /\ (res'.op = "redo" /\ res'.success) =>
              /\ redoStack' = Front(redoStack)
              /\ undoStack' = Append(undoStack, Last(redoStack))]_vars

\* C4 happens: 'a' was created, the creation undone and 'a' created again;
\* the second creation emptied the redo stack that held the first
C4_Witness ==
    /\ res.op = "createFile" /\ res.path = PathA /\ res.success
    /\ Len(operations) = 2
    /\ operations[1] = LogEntry("create", PathA)
    /\ operations[2] = LogEntry("create", PathA)
    /\ undoStack # <<>> /\ Last(undoStack).oldContent = Null
    /\ redoStack = <<>>

\* C5 (as claimed): the undo stack is never longer than the configured
\* maxUndoHistory, whatever calls were made.
C5_UndoStackBounded == Len(undoStack) <= maxUndoHistory

\* C6: a successful mutation on an undo stack holding exactly maxUndoHistory
\* entries evicts the bottom entry only: the entries above it move down one
\* place in order, the new entry is on top and the length is unchanged; every
\* successful undo pops the top entry and restores the pre-image of that
\* entry and of no other, and undo on the empty stack fails, so at most
\* maxUndoHistory undos in a row succeed and none uses the evicted entry.
C6_EvictsOldest ==
    [][/\ (MutationDone /\ Len(undoStack) = maxUndoHistory) =>
              /\ Len(undoStack') = maxUndoHistory
              /\ \A i \in 1..(Len(undoStack) - 1) : undoStack'[i] = undoStack[i + 1]
              /\ Last(undoStack').path = Resolve(res'.path)
              /\ Last(undoStack').newContent = ContentOf(fs', Resolve(res'.path))
              /\ redoStack' = <<>>
       /\ (res'.op = "undo" /\ res'.success) =>
              /\ undoStack' = Front(undoStack)
              /\ redoStack' = Append(redoStack, Last(undoStack))
              /\ ContentOf(fs', Last(undoStack).path) = Last(undoStack).oldContent
       /\ (res'.op = "undo" /\ undoStack = <<>>) => ~res'.success]_vars

\* C6 happens: more mutations than the bound were made on empty stacks and
\* the stack is full after the last one
C6_Witness ==
    /\ res.op \in MutationOps /\ res.success
    /\ trk.phase = "mutating" /\ trk.n = maxUndoHistory + 1 /\ mutations = trk.n
    /\ Len(undoStack) = maxUndoHistory
    /\ maxUndoHistory > 1

----------------------------------------------------------------------------
(* Plan execution *)

\* the indexes 0..n-1 in order
UpTo(n) == [j \in 1..n |-> j - 1]

\* C8: when a step result is a failure it is the last result, every result
\* before it is a success, executePlan has returned success = false with
\* completedSteps the 0-based index of that step and exactly these results,
\* and executeStep was called for the steps up to that index and no other.
C8_FailFast ==
    /\ \A k \in 1..Len(results) :
          ~results[k].success =>
              /\ planState = "Failed" /\ pc = "done"
              /\ outcome = Returned(FALSE, Some(k - 1), results)
              /\ Len(results) = k
              /\ \A m \in 1..(k - 1) : results[m].success
              /\ invoked = UpTo(k)
    /\ planState = "Failed" => (results # <<>> /\ ~Last(results).success)

\* C8 happens: the second step of a 3-step plan failed on an action
C8_Witness ==
    /\ planState = "Failed" /\ Len(cur.steps) = 3 /\ actionFailed
    /\ outcome.completedSteps = Some(1) /\ Len(outcome.results) = 2
    /\ invoked = <<0, 1>>

LastPerPath(entries) ==
    {j \in 1..Len(entries) : \A m \in (j + 1)..Len(entries) : entries[m].path # entries[j].path}

\* the last n elements of a sequence
Suffix(seq, n) == SubSeq(seq, Len(seq) - n + 1, Len(seq))

----------------------------------------------------------------------------
(* Failures of the model call *)

\* C11: once the model call of step i has failed, no action of step i was
\* passed to executeAction, the step result is a failure, executeStep was
\* called for the steps 0..i and no other, and when executePlan has returned
\* the plan is Failed with completedSteps = i and i + 1 results whose last
\* one is that failure, as for a failed action.
C11_InterpreterFailureFailsPlan ==
    interpreterFailed =>
        /\ pc \in {"returned", "done"}
        /\ applied = <<>>
        /\ stepResult = StepFailed("InterpreterFailure")
        /\ ~actionFailed
        /\ invoked = UpTo(stepIndex + 1)
        /\ pc = "done" =>
              /\ planState = "Failed"
              /\ outcome = Returned(FALSE, Some(stepIndex), results)
              /\ Len(results) = stepIndex + 1
              /\ Last(results) = stepResult
              /\ \A m \in 1..stepIndex : results[m].success

\* C11 happens: the first step of a 3-step plan created a file, the model
\* call of the second step failed and the plan stopped there
C11_Witness ==
    /\ interpreterFailed /\ pc = "done" /\ Len(cur.steps) = 3
    /\ outcome.completedSteps = Some(1)
    /\ planEntries # <<>> /\ IsFile(fs, Resolve(PathA))
    /\ invoked = <<0, 1>>


----------------------------------------------------------------------------
(* The engine over files of any content *)

\* what the file 'a' holds before the first call, when it is there: text,
\* text with a trailing newline, a byte that is not UTF-8
ExistingBytes == {<<"x">>, <<"x", NL>>, <<BadByte>>}

\* the strings the caller passes as content: text, lines, the empty string,
\* a string with a surrogate that has no pair
Contents == {<<"x">>, <<"x", NL, "y">>, <<>>, <<Surrogate>>}

ContentInit ==
    /\ fs \in {InitFs} \cup
              {[q \in DOMAIN InitFs \cup {Resolve(PathA)} |->
                   IF q = Resolve(PathA) THEN FileNode(b) ELSE InitFs[q]] :
               b \in ExistingBytes}
    /\ workspaceRoot = Cwd
    /\ allowOutsideWorkspace = FALSE
    /\ maxUndoHistory = MaxHist
    /\ operations = <<>>
    /\ undoStack = <<>>
    /\ redoStack = <<>>
    /\ res = Ret("new", <<>>, TRUE, "")
    /\ touched = {}
    /\ mutations = 0
    /\ trk = TrkStart(fs)
    /\ InitPlan
    /\ InitHost

CtCreateFile == \E content \in Contents, overwrite \in BOOLEAN :
                    UserMutation(createFile(PathA, content, overwrite))
CtReadFile == UserCall(readFile(PathA))
CtDeleteFile == UserMutation(deleteFile(PathA))
CtUndo == UserCall(undo)
CtRedo == UserCall(redo)

ContentNext ==
    \/ CtCreateFile
    \/ CtReadFile
    \/ CtDeleteFile
    \/ CtUndo
    \/ CtRedo

ContentSpec == ContentInit /\ [][ContentNext]_vars

\* C12 (as claimed): readFile right after a successful createFile of the
\* same path succeeds and returns exactly the content that was passed to
\* createFile, for a new file and for an overwrite.
C12_CreateReadRoundTrip ==
    [][(/\ res.op = "createFile" /\ res.success
        /\ res'.op = "readFile" /\ res'.path = res.path)
          => (res'.success /\ res'.content = Last(undoStack).newContent)]_vars

\* C13 (as claimed): undo right after a successful deleteFile leaves the
\* path a file with exactly the bytes it held before the deleteFile, and
\* redo right after that undo removes the path again.
C13_DeleteUndoRestores ==
    /\ trk.del = "undone" => (IsFile(fs, trk.at) /\ fs[trk.at].c = trk.bytes)
    /\ trk.del = "redone" => ~PathExists(fs, trk.at)


----------------------------------------------------------------------------
(* Failures of the engine *)

EngineOps == FileOps \cup {"undo", "redo"}

\* C14: whatever a call of createFile, readFile, editFile, deleteFile,
\* listFiles, undo or redo runs into, the call has returned a value: nothing
\* was thrown to the caller, a failure has success = false with an error
\* message, and a success has none.
C14_NeverThrows ==
    res.op \in EngineOps =>
        /\ ~res.thrown
        /\ ~res.success => res.error # ""
        /\ res.success => res.error = ""

\* C14 happens: undo could not write the file back, because its path had
\* become a directory, and returned the failure
C14_Witness ==
    /\ res.op = "undo" /\ ~res.success /\ res.error = "FilesystemFailure"
    /\ ~res.thrown
    /\ IsDir(fs, Resolve(PathA))


----------------------------------------------------------------------------
(* One edit of a file of any text *)

MaxEditLen == 5      \* characters of the file that is edited

\* the strings of at most n characters over a set of characters
RECURSIVE Strings(_, _)
Strings(chars, n) ==
    IF n = 0 THEN {<<>>}
    ELSE LET shorter == Strings(chars, n - 1)
         IN  shorter \cup {Append(t, c) : t \in shorter, c \in chars}

\* the find-replace requests: search texts that occur once, several times,
\* overlapping or not at all, and replacement texts that are plain, empty,
\* longer than the search text, or hold a "$"
FindReplaceRequests ==
    {EditOptions("find-replace", Null, Some(search), Some(replace), Null) :
        search \in {<<"a">>, <<"-">>, <<"a", "-">>, <<"a", "a">>, <<"b">>},
        replace \in {<<"b">>, <<>>, <<"a", "a">>, <<"$", "&">>, <<"$", "$">>,
                     <<"$", Apostrophe>>, <<"$", "b">>}}

EditInit ==
    /\ fs \in {[q \in DOMAIN InitFs \cup {Resolve(PathA)} |->
                   IF q = Resolve(PathA) THEN FileNode(c) ELSE InitFs[q]] :
               c \in Strings({"a", "-"}, MaxEditLen)}
    /\ workspaceRoot = Cwd
    /\ allowOutsideWorkspace = FALSE
    /\ maxUndoHistory = MaxHist
    /\ operations = <<>>
    /\ undoStack = <<>>
    /\ redoStack = <<>>
    /\ res = Ret("new", <<>>, TRUE, "")
    /\ touched = {}
    /\ mutations = 0
    /\ trk = TrkStart(fs)
    /\ InitPlan
    /\ InitHost

\* the first call on the engine is an edit
EditCall(options) ==
    /\ res.op = "new"
    /\ editFile(PathA, options)
    /\ mutations' = IF res'.success THEN mutations + 1 ELSE mutations
    /\ Track
    /\ UNCHANGED <<planVars, hostVars>>

EdFindReplace == \E o \in FindReplaceRequests : EditCall(o)

EditNext == EdFindReplace

EditSpec == EditInit /\ [][EditNext]_vars

\* the text with every occurrence of search, taken left to right without
\* overlap, replaced by the characters of replace as they are
RECURSIVE ReplacedVerbatim(_, _, _)
ReplacedVerbatim(s, search, replace) ==
    IF ~Includes(s, search) THEN s
    ELSE LET i == CHOOSE j \in 1..(Len(s) - Len(search) + 1) :
                      /\ SubSeq(s, j, j + Len(search) - 1) = search
                      /\ \A k \in 1..(j - 1) : SubSeq(s, k, k + Len(search) - 1) # search
         IN  SubSeq(s, 1, i - 1) \o replace
                 \o ReplacedVerbatim(SubSeq(s, i + Len(search), Len(s)), search, replace)

\* C15 (as claimed): editFile in find-replace mode on a file that holds the
\* search text succeeds and leaves the file with every occurrence of the
\* search text replaced by the replacement text; on a file that does not
\* hold it, it fails with the pattern-not-found error and changes nothing.
C15_FindReplaceAll ==
    [][\A o \in FindReplaceRequests :
          EditCall(o) =>
              LET content == ReadFile(fs, Resolve(PathA))
              IN  IF Includes(content, o.search[1])
                  THEN /\ res'.success
                       /\ ReadFile(fs', Resolve(PathA))
                              = ReplacedVerbatim(content, o.search[1], o.replace[1])
                  ELSE /\ ~res'.success /\ res'.error = "PatternNotFound"
                       /\ UNCHANGED <<fs, undoStack, redoStack, operations>>]_vars


----------------------------------------------------------------------------
(* One edit with the diff preview *)

MaxDiffLen == 3      \* characters of the old text and of the new text

\* replace the text by any new text
ReplaceRequests ==
    {EditOptions("replace", Some(t), Null, Null, Null) :
        t \in Strings({"y", "z", NL}, MaxDiffLen)}

\* insert one line, empty or not, at any index up to the end
InsertRequests ==
    {EditOptions("insert", Some(t), Null, Null, Some(line)) :
        t \in {<<"z">>, <<>>}, line \in 0..MaxDiffLen}

DiffRequests == ReplaceRequests \cup InsertRequests

\* insert one line at no index, at a negative index or beyond the end:
\* parseInt gives NaN or a negative number, the executor passes no line
UnclampedInsertRequests ==
    {EditOptions("insert", Some(t), Null, Null, line) :
        t \in {<<"z">>, <<>>},
        line \in {Null, Some(-1), Some(-(MaxDiffLen + 2)), Some(MaxDiffLen + 2)}}

DiffInit ==
    /\ fs \in {[q \in DOMAIN InitFs \cup {Resolve(PathA)} |->
                   IF q = Resolve(PathA) THEN FileNode(c) ELSE InitFs[q]] :
               c \in Strings({"x", "y", NL}, MaxDiffLen)}
    /\ workspaceRoot = Cwd
    /\ allowOutsideWorkspace = FALSE
    /\ maxUndoHistory = MaxHist
    /\ operations = <<>>
    /\ undoStack = <<>>
    /\ redoStack = <<>>
    /\ res = Ret("new", <<>>, TRUE, "")
    /\ touched = {}
    /\ mutations = 0
    /\ trk = TrkStart(fs)
    /\ InitPlan
    /\ InitHost

DfReplace == \E o \in ReplaceRequests : EditCall(ShowDiff(o))
DfInsert == \E o \in InsertRequests : EditCall(ShowDiff(o))
DfInsertUnclamped == \E o \in UnclampedInsertRequests : EditCall(ShowDiff(o))

DiffNext ==
    \/ DfReplace
    \/ DfInsert
    \/ DfInsertUnclamped

DiffSpec == DiffInit /\ [][DiffNext]_vars

\* what the claim says is emitted for index i (from 0): nothing when both
\* lines are there and equal, else the removal of the old line when there is
\* one, then the addition of the new line when there is one
EmittedAt(oldLines, newLines, i) ==
    IF i < Len(oldLines) /\ i < Len(newLines) /\ oldLines[i + 1] = newLines[i + 1]
    THEN <<>>
    ELSE (IF i < Len(oldLines) THEN <<Removal(oldLines[i + 1])>> ELSE <<>>)
             \o (IF i < Len(newLines) THEN <<Addition(newLines[i + 1])>> ELSE <<>>)

\* the entries for all indexes, in increasing order
PositionAligned(oldLines, newLines) ==
    Join([k \in 1..Max(Len(oldLines), Len(newLines)) |->
             EmittedAt(oldLines, newLines, k - 1)], <<>>)

Additions(entries) == {k \in 1..Len(entries) : entries[k].sign = "+"}

TextXY == <<"x", NL, "y">>
TextZY == <<"z", NL, "y">>

\* C16 (as claimed): the diff of the old and the new text of an edit is the
\* position-aligned one, the diff of "x","y" and "z","y" is the removal of
\* "x" and the addition of "z", and after the insertion of one line every
\* index from the inserted line on is marked as changed.
C16_InsertMarksAllFollowing ==
    [][\A o \in DiffRequests :
          EditCall(ShowDiff(o)) =>
              LET oldLines == Split(ReadFile(fs, Resolve(PathA)), NL)
                  newLines == Split(ReadFile(fs', Resolve(PathA)), NL)
              IN  /\ res'.diff = PositionAligned(oldLines, newLines)
                  /\ (oldLines = <<<<"x">>, <<"y">>>> /\ newLines = <<<<"z">>, <<"y">>>>) =>
                         res'.diff = <<Removal(<<"x">>), Addition(<<"z">>)>>
                  /\ o.mode = "insert" =>
                         Cardinality(Additions(res'.diff))
                             = Len(newLines) - Min(o.line[1], Len(oldLines))]_vars

\* C16 (amended): the diff of the old and the new text of an edit is the
\* position-aligned one, the diff of "x","y" and "z","y" is the removal of
\* "x" and the addition of "z", and after the insertion of one line the
\* indexes marked as changed are those where the new line differs from the
\* old line at that index, the last index always being one of them.
C16_PositionAligned ==
    [][\A o \in DiffRequests :
          EditCall(ShowDiff(o)) =>
              LET oldLines == Split(ReadFile(fs, Resolve(PathA)), NL)
                  newLines == Split(ReadFile(fs', Resolve(PathA)), NL)
              IN  /\ res'.success
                  /\ res'.diff = PositionAligned(oldLines, newLines)
                  /\ (oldLines = <<<<"x">>, <<"y">>>> /\ newLines = <<<<"z">>, <<"y">>>>) =>
                         res'.diff = <<Removal(<<"x">>), Addition(<<"z">>)>>
                  /\ o.mode = "insert" =>
                         /\ Len(newLines) = Len(oldLines) + 1
                         /\ Last(res'.diff) = Addition(Last(newLines))
                         /\ Cardinality(Additions(res'.diff))
                                = Cardinality({i \in 0..(Len(newLines) - 1) :
                                      EmittedAt(oldLines, newLines, i) # <<>>})]_vars

\* C16 happens: the text "x","y" was replaced by "z","y" and the preview
\* shows the first line only
C16_Witness ==
    /\ res.op = "editFile" /\ res.success
    /\ Last(undoStack).oldContent = Some(TextXY)
    /\ Last(undoStack).newContent = Some(TextZY)
    /\ res.diff = <<Removal(<<"x">>), Addition(<<"z">>)>>


----------------------------------------------------------------------------
(* Relative paths and the workspace root *)

\* the workspace root joined with a relative path, in normal form
UnderWorkspaceRoot(p) == Normalize(workspaceRoot, Split(p, "/"))

\* C17 (as claimed): a relative path resolves to the workspace root joined
\* with it, whatever the root is, so a call with a plain relative file name
\* is never rejected by the sandbox and a file it creates is below the
\* workspace root.
C17_RelativeResolvesAgainstRoot ==
    /\ \A P \in {PathA, PathAB} :
          resolveWithinWorkspaceOk(P) /\ Resolve(P) = UnderWorkspaceRoot(P)
    /\ (res.op \in FileOps /\ res.path = PathA) =>
          /\ res.error # "OutOfWorkspace"
          /\ (res.op = "createFile" /\ res.success) =>
                 IsFile(fs, UnderWorkspaceRoot(PathA))

----------------------------------------------------------------------------
(* The file calls on existing and on missing paths, with undo and redo *)

CreateContents == {<<"x">>, <<>>}

\* the user's call createFile(p, content, {overwrite})
CreateCall(p, content, overwrite) == UserMutation(createFile(p, content, overwrite))

FileCallInit == Init /\ maxUndoHistory = MaxHist

FcCreateFile == \E p \in FilePaths, content \in CreateContents, overwrite \in BOOLEAN :
                    CreateCall(p, content, overwrite)
FcEditFile ==
    \E o \in {EditOptions("replace", Some(<<"y">>), Null, Null, Null),
               EditOptions("find-replace", Null, Some(<<"x">>), Some(<<"y">>), Null)} :
        UserMutation(editFile(PathA, o))
FcDeleteFile == \E p \in FilePaths \cup {PathUp} : UserMutation(deleteFile(p))

FcReadFile == \E p \in FilePaths : UserCall(readFile(p))
FcListFiles == UserCall(listFiles(<<".">>, TRUE, FALSE))
FcUndo == UserCall(undo)
FcRedo == UserCall(redo)
FcClearHistory == UserCall(clearHistory)

FileCallNext ==
    \/ FcCreateFile
    \/ FcReadFile
    \/ FcEditFile
    \/ FcDeleteFile
    \/ FcListFiles
    \/ FcUndo
    \/ FcRedo
    \/ FcClearHistory

FileCallSpec == FileCallInit /\ [][FileCallNext]_vars

NothingChanged == UNCHANGED <<fs, operations, undoStack, redoStack>>

\* the call made the file, with every directory above it
CreatedWithParents(abs, content) ==
    /\ res'.success /\ ~res'.overwritten
    /\ Last(undoStack').oldContent = Null
    /\ IsFile(fs', abs) /\ ReadFile(fs', abs) = content
    /\ \A q \in Prefixes(Dirname(abs)) : IsDir(fs', q)

\* the call wrote over the file and kept what a reader found there before
Overwritten(abs, content) ==
    /\ res'.success /\ res'.overwritten
    /\ Last(undoStack').oldContent = ContentOf(fs, abs)
    /\ Last(undoStack').oldContent # Null
    /\ IsFile(fs', abs) /\ ReadFile(fs', abs) = content

\* C18 (as claimed): createFile on an existing path fails with the
\* already-exists error and changes nothing when overwrite is false, and
\* with overwrite true succeeds, reports overwritten and records the previous
\* content as oldContent; on a missing path it succeeds, reports not
\* overwritten, records oldContent null and makes the missing parent
\* directories.
C18_CreateOnAnyPath ==
    [][\A p \in FilePaths, content \in CreateContents, overwrite \in BOOLEAN :
          (res'.op = "createFile" /\ res'.path = p /\ CreateCall(p, content, overwrite)) =>
              LET abs == Resolve(p)
              IN  IF PathExists(fs, abs)
                  THEN IF ~overwrite
                       THEN ~res'.success /\ res'.error = "AlreadyExists" /\ NothingChanged
                       ELSE Overwritten(abs, content)
                  ELSE CreatedWithParents(abs, content)]_vars

\* C18 (amended): createFile on an existing path fails with the
\* already-exists error and changes nothing when overwrite is false; with
\* overwrite true on an existing file it succeeds, reports overwritten and
\* records the previous content as oldContent; on a missing path with no file
\* among its parent components it succeeds, reports not overwritten, records
\* oldContent null and makes the missing parent directories; with overwrite
\* true on a directory, or with a file among the parent components, it fails
\* with another error and changes nothing.
C18_CreateOverwriteOrNew ==
    [][\A p \in FilePaths, content \in CreateContents, overwrite \in BOOLEAN :
          (res'.op = "createFile" /\ res'.path = p /\ CreateCall(p, content, overwrite)) =>
              LET abs == Resolve(p)
              IN  IF PathExists(fs, abs) /\ ~overwrite
                      THEN ~res'.success /\ res'.error = "AlreadyExists" /\ NothingChanged
                  ELSE IF IsFile(fs, abs)
                      THEN Overwritten(abs, content)
                  ELSE IF ~PathExists(fs, abs) /\ \A q \in Prefixes(Dirname(abs)) : ~IsFile(fs, q)
                      THEN CreatedWithParents(abs, content)
                  ELSE /\ ~res'.success /\ res'.error \notin {"", "AlreadyExists"}
                       /\ NothingChanged]_vars

\* C18 happens: the file 'a', whose text an edit had made "y", was written
\* over with "x" and the entry keeps "y"
C18_Witness ==
    /\ res.op = "createFile" /\ res.path = PathA /\ res.success /\ res.overwritten
    /\ Last(undoStack).type = "overwrite"
    /\ Last(undoStack).oldContent = Some(<<"y">>)
    /\ Last(undoStack).newContent = Some(<<"x">>)
    /\ Last(operations) = LogEntry("overwrite", PathA)

----------------------------------------------------------------------------
(* Calls on missing paths and on empty stacks *)

PathOps == {"readFile", "editFile", "deleteFile"}

\* C19: readFile, editFile and deleteFile of a path inside the workspace at
\* which nothing exists return the not-found error and leave the disk, both
\* stacks and the operation log as they were.
C19_MissingPathNotFound ==
    [][(/\ res'.op \in PathOps
        /\ resolveWithinWorkspaceOk(res'.path)
        /\ ~PathExists(fs, Resolve(res'.path)))
          => (/\ ~res'.success /\ res'.error = "NotFound"
              /\ UNCHANGED <<fs, undoStack, redoStack, operations>>)]_vars

\* C19 happens: 'a' was made and deleted, and editFile('a') does not find it
C19_Witness ==
    /\ res.op = "editFile" /\ res.path = PathA
    /\ ~res.success /\ res.error = "NotFound"
    /\ ~PathExists(fs, Resolve(PathA))
    /\ Len(undoStack) = 2 /\ Len(operations) = 2

\* C20: undo() with an empty undoStack fails with 'Nothing to undo' and
\* redo() with an empty redoStack fails with 'Nothing to redo', and neither
\* changes the disk, the stacks or the operation log.
C20_EmptyStackFails ==
    [][/\ (res'.op = "undo" /\ undoStack = <<>>) =>
              (/\ ~res'.success /\ res'.error = "NothingToUndo"
               /\ UNCHANGED <<fs, undoStack, redoStack, operations>>)
       /\ (res'.op = "redo" /\ redoStack = <<>>) =>
              (/\ ~res'.success /\ res'.error = "NothingToRedo"
               /\ UNCHANGED <<fs, undoStack, redoStack, operations>>)]_vars

\* C20 happens: the one mutation was undone, and a second undo() finds the
\* stack empty while the redo stack holds the entry
C20_Witness ==
    /\ res.op = "undo" /\ ~res.success /\ res.error = "NothingToUndo"
    /\ undoStack = <<>> /\ Len(redoStack) = 1 /\ Len(operations) = 1

----------------------------------------------------------------------------
(* One undo, one redo *)

\* every file but the one at abs is the same before and after the step
OtherFilesUnchanged(abs) ==
    \A q \in (DOMAIN fs \cup DOMAIN fs') \ {abs} :
        /\ IsFile(fs, q) <=> IsFile(fs', q)
        /\ IsFile(fs, q) => fs'[q] = fs[q]

\* the path is absent when the content is null, else it is the file the
\* content was written to
Holds(f, abs, content) ==
    IF content = Null THEN ~PathExists(f, abs)
    ELSE IsFile(f, abs) /\ f[abs].c = Utf8Encode(content[1])

\* C25: a successful undo() moves the top entry of the undoStack, and no
\* other, to the top of the redoStack and makes the entry's path hold
\* oldContent, or be absent when oldContent is null; a successful redo() moves
\* the top entry of the redoStack back to the top of the undoStack and makes
\* the path hold newContent, or be absent when newContent is null; no other
\* file changes.
C25_UndoRedoMoveTopEntry ==
    [][/\ (res'.op = "undo" /\ res'.success) =>
              /\ undoStack # <<>>
              /\ undoStack' = Front(undoStack)
              /\ redoStack' = Append(redoStack, Last(undoStack))
              /\ Holds(fs', Last(undoStack).path, Last(undoStack).oldContent)
              /\ OtherFilesUnchanged(Last(undoStack).path)
       /\ (res'.op = "redo" /\ res'.success) =>
              /\ redoStack # <<>>
              /\ redoStack' = Front(redoStack)
              /\ undoStack' = Append(undoStack, Last(redoStack))
              /\ Holds(fs', Last(redoStack).path, Last(redoStack).newContent)
              /\ OtherFilesUnchanged(Last(redoStack).path)]_vars

\* C25 happens: 'a' was made, edited and deleted; the delete and the edit
\* were undone and the edit redone, so both stacks hold entries and 'a'
\* holds the edited text
C25_Witness ==
    /\ res.op = "redo" /\ res.success
    /\ Len(undoStack) = 2 /\ Len(redoStack) = 1
    /\ Last(undoStack).type = "edit" /\ Last(redoStack).type = "delete"
    /\ ContentOf(fs, Resolve(PathA)) = Last(undoStack).newContent
    /\ Last(undoStack).newContent = Some(<<"y">>)

----------------------------------------------------------------------------
(* Failed mutations *)

----------------------------------------------------------------------------
(* The operation log *)

LogTypes == {"create", "overwrite", "edit", "delete"}

\* C27: clearHistory empties the operation log; a successful createFile,
\* editFile or deleteFile appends exactly one entry, for the path it was
\* called with, and keeps the entries before it in order; every other call,
\* and every failed call, leaves the log as it is; so the log grows by one
\* exactly when the count of successful mutations does.
C27_LogAppendOnly ==
    [][IF res'.op = "clearHistory"
           THEN operations' = <<>> /\ mutations' = mutations
       ELSE IF res'.op \in MutationOps /\ res'.success
           THEN /\ Len(operations') = Len(operations) + 1
                /\ SubSeq(operations', 1, Len(operations)) = operations
                /\ Last(operations').path = res'.path
                /\ Last(operations').type \in LogTypes
                /\ mutations' = mutations + 1
       ELSE operations' = operations /\ mutations' = mutations]_vars

\* C27 happens: two mutations were logged, the history was cleared, a file
\* was deleted, the delete was undone and redone, and the log holds the one
\* entry of the delete
C27_Witness ==
    /\ res.op = "redo" /\ res.success
    /\ mutations = 3
    /\ operations = <<LogEntry("delete", PathA)>>
    /\ Len(undoStack) = 1

----------------------------------------------------------------------------
(* Insert mode *)

\* the lines with one more line at index at (from 0)
InsertedAt(lines, at, item) ==
    SubSeq(lines, 1, at) \o <<item>> \o SubSeq(lines, at + 1, Len(lines))

\* C29 (as claimed): editFile in insert mode on a file of k lines puts the
\* new content as a line of its own at index L and moves the lines from L on
\* down by one when 0 <= L <= k, and puts it after the last line when L is
\* absent, not an integer, greater than k or negative.
C29_InsertAtLineOrEnd ==
    [][\A o \in InsertRequests \cup UnclampedInsertRequests :
          EditCall(ShowDiff(o)) =>
              LET lines == Split(ReadFile(fs, Resolve(PathA)), NL)
                  k == Len(lines)
                  at == IF o.line # Null /\ 0 <= o.line[1] /\ o.line[1] <= k
                        THEN o.line[1] ELSE k
              IN  /\ res'.success
                  /\ ReadFile(fs', Resolve(PathA))
                         = Join(InsertedAt(lines, at, o.newContent[1]), <<NL>>)]_vars

----------------------------------------------------------------------------
(* Unknown kinds of action *)

ActionKinds == {"create", "read", "edit", "delete"}

\* C28: an action whose kind is not create, read, edit or delete gets the
\* result success = false, 'Unknown action', returned and not thrown, and no
\* FileManager call is made for it: disk, stacks and log stay as they are;
\* executeStep returns that failure at once and executePlan ends Failed at
\* this step with it as the last result.
C28_UnknownActionFails ==
    [][/\ (Len(applied') = Len(applied) + 1 /\ Last(applied').action \notin ActionKinds) =>
              /\ res' = Ret("executeAction", Last(applied').path, FALSE, "UnknownAction")
              /\ touched' = {}
              /\ UNCHANGED <<fs, undoStack, redoStack, operations, mutations>>
              /\ actionResults' = Append(actionResults, res')
              /\ stepResult' = StepFailed("UnknownAction")
              /\ pc' = "returned"
       /\ res'.op = "executeAction" =>
              /\ pc' \in {"returned", "done"}
              /\ ~stepResult'.success /\ stepResult'.error = "UnknownAction"
              /\ pc' = "done" =>
                     /\ planState' = "Failed"
                     /\ outcome' = Returned(FALSE, Some(stepIndex'), results')
                     /\ Last(results') = stepResult']_vars

\* C28 happens: the first step of a plan made 'a', the second asked for a
\* move, and the plan failed there with the file in place
C28_Witness ==
    /\ res.op = "executeAction" /\ res.error = "UnknownAction"
    /\ pc = "done" /\ planState = "Failed"
    /\ outcome.completedSteps = Some(1) /\ Len(outcome.results) = 2
    /\ Len(operations) = 1 /\ IsFile(fs, Resolve(PathA))

----------------------------------------------------------------------------
(* The plan registry *)

MaxRegistry == 2     \* plans in the registry

RgCreatePlan == \E steps \in StepLists, tick \in {0, 1} :
                    /\ Len(plans) < MaxRegistry
                    /\ createPlan(steps, tick)
                    /\ UNCHANGED hostVars
RgCreatePlanFails == createPlanFails /\ UNCHANGED hostVars
RgExecutePlan == \E planId \in 0..MaxRegistry : executePlan(planId) /\ UNCHANGED hostVars

RegistryNext ==
    \/ RgCreatePlan
    \/ RgCreatePlanFails
    \/ RgExecutePlan

RegistrySpec == Init /\ [][RegistryNext]_vars

\* C30 (as claimed): the plans of the registry have pairwise distinct ids,
\* whether or not the clock moved between two createPlan calls, so the plan
\* found for an id is the plan that was created with it and executePlan runs
\* that plan; a createPlan whose model call fails leaves the registry as it
\* is.
C30_PlanIdsDistinct ==
    [][/\ \A j, k \in 1..Len(plans') : j # k => plans'[j].id # plans'[k].id
       /\ outcome' = Threw("Failed to create plan") => plans' = plans
       /\ planState' = "Running" => \E k \in 1..Len(plans') :
              /\ cur' = plans'[k]
              /\ \A j \in 1..Len(plans') : plans'[j].id = cur'.id => j = k]_vars

----------------------------------------------------------------------------
(* A plan run, seen at each await of executeStep's loop *)

\* executeStep that calls executeAction without awaiting it
executeActionCalledUnawaited ==
    /\ pc = "actions"
    /\ Len(applied) < Len(actions)
    /\ applied' = Append(applied, actions[Len(applied) + 1])
    /\ inFlight' = Append(inFlight, actions[Len(applied) + 1])
    /\ UNCHANGED <<clock, plans, planState, pc, cur, stepIndex, results, outcome, actions,
                   actionResults, stepResult, invoked, interpreterFailed, actionFailed,
                   planEntries>>
    /\ UNCHANGED <<fmVars, mutations, trk>>
    /\ UNCHANGED <<retryVars, running, hostPc, answer, safeMode, asked, pending>>

\* one turn of the loop of executeStep, up to its await: executeAction is
\* called and executeStep waits for it
executeActionCalled ==
    /\ pc = "actions"
    /\ Len(applied) < Len(actions)
    /\ applied' = Append(applied, actions[Len(applied) + 1])
    /\ inFlight' = Append(inFlight, actions[Len(applied) + 1])
    /\ pc' = "awaiting"
    /\ UNCHANGED <<clock, plans, planState, cur, stepIndex, results, outcome, actions,
                   actionResults, stepResult, invoked, interpreterFailed, actionFailed,
                   planEntries>>
    /\ UNCHANGED <<fmVars, mutations, trk>>
    /\ UNCHANGED <<retryVars, running, hostPc, answer, safeMode, asked, pending>>

\* the rest of the turn: the FileManager call of the action is made and
\* returns, and executeStep goes on with its result
executeActionSettled ==
    /\ pc = "awaiting"
    /\ inFlight # <<>>
    /\ executeAction(Head(inFlight))
    /\ inFlight' = Tail(inFlight)
    /\ actionResults' = Append(actionResults, res')
    /\ planEntries' = IF res'.op \in MutationOps /\ res'.success
                      THEN Append(planEntries, undoStack'[Len(undoStack')])
                      ELSE planEntries
    /\ IF res'.success
       THEN /\ pc' = "actions"
            /\ UNCHANGED <<stepResult, actionFailed>>
       ELSE /\ stepResult' = StepFailed(res'.error)
            /\ actionFailed' = TRUE
            /\ pc' = "returned"
    /\ UNCHANGED <<clock, plans, planState, cur, stepIndex, results, outcome, actions,
                   invoked, applied, interpreterFailed>>
    /\ UNCHANGED <<retryVars, running, hostPc, answer, safeMode, asked, pending>>

AwActionCalled == executeActionCalled
AwActionSettled == executeActionSettled

AwaitNext ==
    \/ PlCreatePlan
    \/ PlExecutePlan
    \/ PlExecuteStep
    \/ AwActionCalled
    \/ AwActionSettled
    \/ PlStepReturns
    \/ PlStepDone
    \/ PlReturns

AwaitSpec == Init /\ [][AwaitNext]_vars

\* C24: within a run of executePlan at most one executeAction call, and so at
\* most one FileManager operation, is in progress at any time, and the disk
\* and the history change only when the call in progress returns; a call
\* starts only when every call started before it in the step has returned;
\* and executeStep is called for the next step only when no call is in
\* progress and every action of the step before has returned its result.
C24_MutationsSerialized ==
    [][/\ Len(inFlight') <= 1
       /\ UNCHANGED inFlight => UNCHANGED <<fs, operations, undoStack, redoStack>>
       /\ Len(inFlight') > Len(inFlight) =>
              /\ inFlight = <<>>
              /\ Len(actionResults) = Len(applied)
       /\ Len(inFlight') < Len(inFlight) =>
              /\ Len(actionResults') = Len(applied')
              /\ res'.path = Head(inFlight).path
       /\ Len(invoked') > Len(invoked) =>
              /\ inFlight = <<>>
              /\ invoked # <<>> =>
                     /\ Len(applied) = Len(actions)
                     /\ Len(actionResults) = Len(actions)]_vars

\* the second action of a later step is in progress, after a step whose
\* actions changed the disk
C24_Witness ==
    /\ planState = "Running"
    /\ Len(planEntries) >= 2
    /\ Len(invoked) >= 2
    /\ Len(applied) = 2
    /\ Len(inFlight) = 1
    /\ Len(actionResults) = 1

----------------------------------------------------------------------------
(* The Agent behind the host's main loop *)

\* CLI.start: the main loop begins
start ==
    /\ hostPc = "constructed"
    /\ running' = TRUE
    /\ hostPc' = "prompt"
    /\ UNCHANGED <<retryVars, answer, safeMode, asked, pending, inFlight>>
    /\ UNCHANGED <<fmVars, mutations, trk, planVars>>

\* runMainLoop that also stops when a command fails or throws
runMainLoopStopsOnFailure ==
    /\ hostPc = "settled"
    /\ IF answer.exit \/ ~answer.success
       THEN running' = FALSE /\ hostPc' = "stopped"
       ELSE hostPc' = "prompt" /\ UNCHANGED running
    /\ UNCHANGED <<retryVars, answer, safeMode, asked, pending, inFlight>>
    /\ UNCHANGED <<fmVars, mutations, trk, planVars>>

\* runMainLoop after processInput settled: result?.exit ends the loop, any
\* other result is printed and an error is caught and printed
runMainLoop ==
    /\ hostPc = "settled"
    /\ IF answer.kind = "resolved" /\ answer.exit
       THEN running' = FALSE /\ hostPc' = "stopped"
       ELSE hostPc' = "prompt" /\ UNCHANGED running
    /\ UNCHANGED <<retryVars, answer, safeMode, asked, pending, inFlight>>
    /\ UNCHANGED <<fmVars, mutations, trk, planVars>>

\* runMainLoop reads an input and hands it to processInput
AtPrompt == running /\ hostPc = "prompt"

\* processInput settles with the result of the FileManager call it returns
Settles(input) ==
    /\ answer' = IF res'.thrown THEN Rejected(input)
                 ELSE Resolved(input, res'.success, FALSE)
    /\ hostPc' = "settled"

\* the answer to an inquirer confirm prompt for a path
Confirm(p, allow) == Some([path |-> p, allow |-> allow])

\* /create <path> <content>
handleCreateCommand(p, content, allow) ==
    /\ AtPrompt
    /\ asked' = IF safeMode THEN Confirm(p, allow) ELSE Null
    /\ IF safeMode /\ ~allow
       THEN /\ answer' = Resolved("create", TRUE, FALSE)
            /\ hostPc' = "settled"
            /\ UNCHANGED <<fmVars, mutations, trk>>
       ELSE /\ Counted(createFile(p, content, FALSE))
            /\ Settles("create")
    /\ UNCHANGED <<retryVars, running, safeMode, pending, inFlight, planVars>>

\* /delete <path>
handleDeleteCommand(p, allow) ==
    /\ AtPrompt
    /\ asked' = IF safeMode THEN Confirm(p, allow) ELSE Null
    /\ IF safeMode /\ ~allow
       THEN /\ answer' = Resolved("delete", TRUE, FALSE)
            /\ hostPc' = "settled"
            /\ UNCHANGED <<fmVars, mutations, trk>>
       ELSE /\ Counted(deleteFile(p))
            /\ Settles("delete")
    /\ UNCHANGED <<retryVars, running, safeMode, pending, inFlight, planVars>>

\* /edit <path> <mode> <args>
handleEditCommand(p, options) ==
    /\ AtPrompt
    /\ asked' = Null
    /\ Counted(editFile(p, options))
    /\ Settles("edit")
    /\ UNCHANGED <<retryVars, running, safeMode, pending, inFlight, planVars>>

\* /plan <task>: Agent.createPlan awaits planner.createPlan
agentCreatePlan(steps, tick) ==
    /\ AtPrompt
    /\ asked' = Null
    /\ createPlan(steps, tick)
    /\ answer' = Resolved("plan", TRUE, FALSE)
    /\ hostPc' = "settled"
    /\ UNCHANGED <<retryVars, running, safeMode, pending, inFlight>>

\* /plan <task> when planner.createPlan throws
agentCreatePlanFails ==
    /\ AtPrompt
    /\ asked' = Null
    /\ createPlanFails
    /\ answer' = Rejected("plan")
    /\ hostPc' = "settled"
    /\ UNCHANGED <<retryVars, running, safeMode, pending, inFlight>>

\* /execute [id]: Agent.executePlan up to the start of the run
agentExecutePlan(planId) ==
    /\ AtPrompt
    /\ asked' = Null
    /\ LET id == IF planId = Null \/ planId[1] = 0
                 THEN IF plans = <<>> THEN Null ELSE Some(Last(plans).id)
                 ELSE planId
       IN  IF id = Null
           THEN /\ answer' = Resolved("execute", FALSE, FALSE)
                /\ hostPc' = "settled"
                /\ UNCHANGED <<fmVars, mutations, trk, planVars>>
           ELSE /\ executePlan(id[1])
                /\ IF FindPlan(id[1]) = Null
                   THEN answer' = Rejected("execute") /\ hostPc' = "settled"
                   ELSE hostPc' = "executing" /\ UNCHANGED answer
    /\ UNCHANGED <<retryVars, running, safeMode, pending, inFlight>>

\* Agent.executePlan returns what planner.executePlan returned
agentExecutePlanReturns ==
    /\ hostPc = "executing"
    /\ pc = "done"
    /\ answer' = Resolved("execute", outcome.success, FALSE)
    /\ hostPc' = "settled"
    /\ UNCHANGED <<retryVars, running, safeMode, asked, pending, inFlight>>
    /\ UNCHANGED <<fmVars, mutations, trk, planVars>>

\* a FILE block of the model's answer
Block(p, content) == [path |-> p, content |-> content]

\* handleBuildMode up to its loop: reply is Null when the model call returns
\* success = false, else the blocks parseFileBlocks finds; proceed is the
\* answer to 'Apply these changes?'
handleBuildMode(reply, proceed) ==
    /\ AtPrompt
    /\ asked' = Null
    /\ IF reply = Null
       THEN /\ answer' = Resolved("build", FALSE, FALSE)
            /\ hostPc' = "settled"
            /\ UNCHANGED pending
       ELSE IF reply[1] = <<>> \/ ~proceed
       THEN /\ answer' = Resolved("build", TRUE, FALSE)
            /\ hostPc' = "settled"
            /\ UNCHANGED pending
       ELSE /\ pending' = reply[1]
            /\ hostPc' = "building"
            /\ UNCHANGED answer
    /\ UNCHANGED <<retryVars, running, safeMode, inFlight>>
    /\ UNCHANGED <<fmVars, mutations, trk, planVars>>

\* one turn of the loop of handleBuildMode
handleBuildBlock(allow) ==
    /\ hostPc = "building"
    /\ pending # <<>>
    /\ asked' = IF safeMode THEN Confirm(Head(pending).path, allow) ELSE Null
    /\ IF safeMode /\ ~allow
       THEN UNCHANGED <<fmVars, mutations, trk>>
       ELSE Counted(createFile(Head(pending).path, Head(pending).content, TRUE))
    /\ pending' = Tail(pending)
    /\ UNCHANGED <<retryVars, running, hostPc, answer, safeMode, inFlight, planVars>>

\* the loop of handleBuildMode is over
handleBuildReturns ==
    /\ hostPc = "building"
    /\ pending = <<>>
    /\ answer' = Resolved("build", TRUE, FALSE)
    /\ hostPc' = "settled"
    /\ UNCHANGED <<retryVars, running, safeMode, asked, pending, inFlight>>
    /\ UNCHANGED <<fmVars, mutations, trk, planVars>>

\* /config safemode on|off
toggleBooleanPreference(value) ==
    /\ AtPrompt
    /\ safeMode' = value
    /\ asked' = Null
    /\ answer' = Resolved("config", TRUE, FALSE)
    /\ hostPc' = "settled"
    /\ UNCHANGED <<retryVars, running, pending, inFlight>>
    /\ UNCHANGED <<fmVars, mutations, trk, planVars>>

\* /exit and /quit
handleExit(cmd) ==
    /\ AtPrompt
    /\ asked' = Null
    /\ answer' = Resolved(cmd, TRUE, TRUE)
    /\ hostPc' = "settled"
    /\ UNCHANGED <<retryVars, running, safeMode, pending, inFlight>>
    /\ UNCHANGED <<fmVars, mutations, trk, planVars>>

\* the default branch of handleSlashCommand
handleUnknownCommand ==
    /\ AtPrompt
    /\ asked' = Null
    /\ answer' = Resolved("unknown", FALSE, FALSE)
    /\ hostPc' = "settled"
    /\ UNCHANGED <<retryVars, running, safeMode, pending, inFlight>>
    /\ UNCHANGED <<fmVars, mutations, trk, planVars>>

\* the blocks parseFileBlocks returns
BlockLists == {<<>>, <<Block(PathA, <<"y">>)>>,
               <<Block(PathA, <<"y">>), Block(PathAB, <<"x">>)>>}

AgStart == start
AgLoop == runMainLoop
AgCreate == \E allow \in BOOLEAN : handleCreateCommand(PathA, <<"x">>, allow)
AgDelete == \E allow \in BOOLEAN : handleDeleteCommand(PathA, allow)
AgEdit == handleEditCommand(PathA, EditOptions("replace", Some(<<"y">>), Null, Null, Null))
AgPlan == Len(plans) < MaxPlans /\ agentCreatePlan(<<"s1">>, 1)
AgPlanFails == outcome.kind = "none" /\ agentCreatePlanFails
AgExecute == \E planId \in {Null, Some(1), Some(MaxPlans + 1)} : agentExecutePlan(planId)
AgExecuteStep == \E reply \in {Null, Some(<<CreateA, EditA>>), Some(<<DeleteA>>)} :
                     hostPc = "executing" /\ executeStep(reply) /\ UNCHANGED hostVars
AgAction == hostPc = "executing" /\ PlAction
AgStepReturns == hostPc = "executing" /\ PlStepReturns
AgStepDone == hostPc = "executing" /\ PlStepDone
AgPlanReturns == hostPc = "executing" /\ PlReturns
AgExecuteReturns == agentExecutePlanReturns
AgBuild == \E reply \in {Null} \cup {Some(l) : l \in BlockLists}, proceed \in BOOLEAN :
               handleBuildMode(reply, proceed)
AgBuildBlock == \E allow \in BOOLEAN : handleBuildBlock(allow)
AgBuildReturns == handleBuildReturns
AgConfig == \E value \in BOOLEAN : toggleBooleanPreference(value)
AgExit == \E cmd \in {"exit", "quit"} : handleExit(cmd)
AgUnknown == handleUnknownCommand

AgentNext ==
    \/ AgStart
    \/ AgLoop
    \/ AgCreate
    \/ AgDelete
    \/ AgEdit
    \/ AgPlan
    \/ AgPlanFails
    \/ AgExecute
    \/ AgExecuteStep
    \/ AgAction
    \/ AgStepReturns
    \/ AgStepDone
    \/ AgPlanReturns
    \/ AgExecuteReturns
    \/ AgBuild
    \/ AgBuildBlock
    \/ AgBuildReturns
    \/ AgConfig
    \/ AgExit
    \/ AgUnknown

AgentInit == Init /\ maxUndoHistory = MaxHist

AgentSpec == AgentInit /\ [][AgentNext]_vars

\* C21 (as claimed): processInput never rejects: whatever the input, also
\* /plan when the planner's model call fails and /execute with an id that is
\* not in the registry, the host gets a result value.
C21_ProcessInputNeverRejects == answer.kind # "rejected"

\* C22: the main loop ends when, and only when, processInput returned a
\* result with exit = true, which it does for /exit and /quit and for nothing
\* else: after such a result the loop stops and nothing more is processed;
\* after any other result, a failure or a thrown error the loop prompts
\* again.
C22_QuitStopsLoop ==
    [][/\ hostPc = "stopped" => UNCHANGED vars
       /\ (hostPc # "settled" /\ hostPc' = "settled") =>
              (answer'.exit <=> (answer'.kind = "resolved" /\ answer'.input \in {"exit", "quit"}))
       /\ hostPc = "settled" =>
              IF answer.input \in {"exit", "quit"}
              THEN ~running' /\ hostPc' = "stopped"
              ELSE running' /\ hostPc' = "prompt"
       /\ running' # running =>
              \/ hostPc = "constructed"
              \/ hostPc = "settled" /\ answer.kind = "resolved" /\ answer.exit]_vars

\* the loop went on after a command that threw and a command that failed,
\* and stopped at /quit
C22_Witness ==
    /\ hostPc = "stopped"
    /\ ~running
    /\ answer.input = "quit"
    /\ outcome.kind = "Failed to create plan"
    /\ ~res.success

\* a file that is there before the step and is gone or has other bytes
\* after it
Destroyed(abs) == IsFile(fs, abs) /\ (~IsFile(fs', abs) \/ fs'[abs].c # fs[abs].c)

\* C23 (as claimed): while safeMode is on, a createFile, editFile or
\* deleteFile that replaces, changes or removes an existing file, from a
\* slash command, from build mode or from a plan run, comes with a
\* confirmation for its path that the user accepted; and when the user
\* declines a confirmation no file changes.
C23_ConfirmedBeforeDestroying ==
    [][/\ (safeMode /\ res'.op \in MutationOps /\ \E abs \in DOMAIN fs : Destroyed(abs)) =>
              asked' = Confirm(res'.path, TRUE)
       /\ (asked' # Null /\ ~asked'[1].allow) => fs' = fs]_vars

----------------------------------------------------------------------------
(* A plan without steps *)

\* C37: executePlan on a plan with no steps returns success = true with an
\* empty list of results, and between its start and its return executeStep
\* is not called and no FileManager operation is made.
C37_EmptyPlanCompletes ==
    [][(pc = "loop" /\ cur.steps = <<>>) =>
           /\ outcome' = Returned(TRUE, Null, <<>>)
           /\ planState' = "Completed"
           /\ pc' = "done"
           /\ invoked = <<>> /\ invoked' = <<>>
           /\ applied' = <<>>
           /\ UNCHANGED <<fs, operations, undoStack, redoStack, res, mutations>>]_vars

\* a run of a registered plan without steps has returned
C37_Witness ==
    /\ plans # <<>>
    /\ cur = plans[1]
    /\ cur.steps = <<>>
    /\ pc = "done"
    /\ outcome = Returned(TRUE, Null, <<>>)
    /\ invoked = <<>>

----------------------------------------------------------------------------
(* Names that begin with two dots *)

\* paths to a file and into a directory, directly under /w, whose name begins
\* with two dots
DotNamePaths ==
    {<<".", ".", "c">>,
     <<"/", "w", "/", ".", ".", "c">>,
     <<".", ".", "c", "/", "a">>}

\* C32 (as claimed): with allowOutsideWorkspace false, resolveWithinWorkspace
\* accepts every path whose normal absolute form is the workspace root or
\* below it, a name directly under the root that begins with two dots
\* included.
C32_InsideAccepted ==
    ~allowOutsideWorkspace =>
        \A P \in SandboxPaths \cup DotNamePaths :
            IsUnder(workspaceRoot, Resolve(P)) => resolveWithinWorkspaceOk(P)

----------------------------------------------------------------------------
(* Undo and redo that fail on the disk *)

\* C33 (as claimed): an undo() or redo() that returns success = false
\* because the disk refused the write or the removal leaves the undoStack and
\* the redoStack as they were before the call, so that the entry can be
\* retried and the number of entries on the two stacks is the same.
C33_FailedUndoKeepsEntry ==
    [][(res'.op \in {"undo", "redo"} /\ ~res'.success /\ res'.error = "FilesystemFailure") =>
           /\ UNCHANGED <<undoStack, redoStack>>
           /\ Len(undoStack') + Len(redoStack') = Len(undoStack) + Len(redoStack)]_vars

----------------------------------------------------------------------------
(* A step whose action fails after others succeeded *)

EditAB == Action("edit", PathAB, Some(<<"y">>), Null, Null)

\* the arrays parseActions returns: a failing edit or read after zero, one
\* and two mutations, with a delete behind it
FailingActionLists ==
    {<<CreateA>>,
     <<EditAB, DeleteA>>,
     <<CreateA, ReadAB, DeleteA>>,
     <<CreateA, EditA, EditAB, DeleteA>>}

FlCreatePlan == \E steps \in {<<"s1">>, <<"s1", "s2">>} :
                    /\ plans = <<>>
                    /\ createPlan(steps, 1)
                    /\ UNCHANGED hostVars
FlExecuteStep == \E l \in FailingActionLists : executeStep(Some(l)) /\ UNCHANGED hostVars

FailNext ==
    \/ FlCreatePlan
    \/ PlExecutePlan
    \/ FlExecuteStep
    \/ PlAction
    \/ PlStepReturns
    \/ PlStepDone
    \/ PlReturns
    \/ PlUndo

FailSpec == Init /\ [][FailNext]_vars

\* the number of mutations among the results of the step so far
StepMutations == Cardinality({j \in 1..Len(actionResults) :
                                 actionResults[j].op \in MutationOps /\ actionResults[j].success})

\* action k of the step has just returned a failure
ActionJustFailed ==
    /\ pc = "actions"
    /\ Len(actionResults') = Len(actionResults) + 1
    /\ ~Last(actionResults').success

\* what C35 says apart from the undo stack: the failing action changes
\* nothing, every path the step mutated has the content its last mutation
\* gave it, no further action of the step is passed to executeAction, and
\* executePlan returns completedSteps = the index of the step, which leaves
\* that step out
EarlierMutationsStay ==
    /\ ActionJustFailed =>
           LET entries == Suffix(planEntries, StepMutations)
           IN  /\ UNCHANGED <<fs, undoStack, redoStack, operations>>
               /\ \A j \in LastPerPath(entries) :
                      ContentOf(fs', entries[j].path) = entries[j].newContent
               /\ pc' = "returned"
               /\ ~stepResult'.success
               /\ Len(applied') = Len(actionResults')
    /\ (pc = "returned" /\ actionFailed) =>
           /\ pc' = "done"
           /\ outcome' = Returned(FALSE, Some(stepIndex), results')
           /\ Len(results') = stepIndex + 1
           /\ UNCHANGED <<fs, undoStack, redoStack, operations, applied>>
    /\ (pc = "done" /\ actionFailed) => UNCHANGED applied

----------------------------------------------------------------------------
(* An edit request of a plan step against the direct call *)

\* an edit object of the reply with every field editFile has an option for
EditRequest(path, content, mode, search, replace, line) ==
    [action |-> "edit", path |-> path, content |-> content, mode |-> mode,
     search |-> search, replace |-> replace, line |-> line]

EditActionRequests ==
    {EditRequest(PathA, Some(<<"y">>), Null, Null, Null, Null),
     EditRequest(PathA, Some(<<"y">>), Some("replace"), Null, Null, Null),
     EditRequest(PathA, Some(<<"y">>), Some("append"), Null, Null, Null),
     EditRequest(PathA, Some(<<"y">>), Some("insert"), Null, Null, Some(0)),
     EditRequest(PathA, Some(<<"y">>), Some("insert"), Null, Null, Null),
     EditRequest(PathA, Null, Some("find-replace"), Some(<<"a">>), Some(<<"b">>), Null),
     EditRequest(PathA, Null, Some("find-replace"), Some(<<"a", "a">>), Some(<<>>), Null)}

\* the options of the direct call with the fields of the request
directOptionsOf(request) ==
    EditOptions(IF request.mode = Null THEN "replace" ELSE request.mode[1],
                request.content, request.search, request.replace, request.line)

RqEdit == \E request \in EditActionRequests : EditCall(editOptionsOf(request))

RequestNext == RqEdit

RequestSpec == EditInit /\ [][RequestNext]_vars

\* the request's edit succeeds or fails as the direct call does and leaves
\* the file with the content the direct call writes
SameAsDirect(requests) ==
    \A request \in requests :
        EditCall(editOptionsOf(request)) =>
            LET content == ReadFile(fs, Resolve(PathA))
                direct == directOptionsOf(request)
                written == EditedContent(content, direct)
            IN  IF PatternMissing(content, direct) \/ written = Null
                THEN ~res'.success /\ UNCHANGED fs
                ELSE res'.success /\ ReadFile(fs', Resolve(PathA)) = written[1]

\* C31 (as claimed): an edit request run by executeAction changes the file as
\* editFile does when called with the request's fields: find-replace puts
\* the request's replacement text in place of every occurrence of the search
\* text, and insert puts the line at the requested index.
C31_PlanEditAsDirect == [][SameAsDirect(EditActionRequests)]_vars

----------------------------------------------------------------------------
(* Replies of the interpreter that hold no array *)

\* the content of a reply: text with no "[...]" in it, text whose "[...]"
\* JSON.parse rejects, or text whose "[...]" is the array of actions given
Prose == [kind |-> "prose", actions |-> <<>>]
Malformed == [kind |-> "malformed", actions |-> <<>>]
ArrayOf(list) == [kind |-> "array", actions |-> list]

ReplyContents ==
    {Prose, Malformed, ArrayOf(<<>>), ArrayOf(<<CreateA>>), ArrayOf(<<CreateA, EditA>>),
     ArrayOf(<<DeleteA>>)}

\* parseActions: no match returns [], and so does the catch around JSON.parse
parseActions(content) ==
    IF content.kind = "prose" THEN <<>>
    ELSE IF content.kind = "malformed" THEN <<>>
    ELSE content.actions

PsExecuteStep == \E content \in ReplyContents :
                     executeStep(Some(parseActions(content))) /\ UNCHANGED hostVars

ParseNext ==
    \/ FlCreatePlan
    \/ PlExecutePlan
    \/ PsExecuteStep
    \/ PlAction
    \/ PlStepReturns
    \/ PlStepDone
    \/ PlReturns
    \/ PlUndo

ParseSpec == Init /\ [][ParseNext]_vars

\* C34 (as claimed): a reply of the interpreter in which no JSON array can be
\* parsed makes executeStep return a failure, as a failed model call does:
\* no action list is taken from it and the step is not completed with zero
\* mutations.
C34_UnparsableReplyFailsStep ==
    [][\A content \in ReplyContents :
          (content.kind # "array" /\ executeStep(Some(parseActions(content)))) =>
              /\ pc' = "returned"
              /\ ~stepResult'.success]_vars

----------------------------------------------------------------------------
(* Undoing every mutation made since construction *)

\* C36 (as claimed): when n mutations, n <= maxUndoHistory, succeeded on an
\* engine constructed with empty stacks, each of the n undo calls that follow
\* succeeds, and after the n-th every file is there or not there as at
\* construction, with the content it had then.
C36_UndoAllRestores ==
    (/\ trk.phase = "undoing"
     /\ mutations = trk.n
     /\ trk.n <= maxUndoHistory
     /\ res.op = "undo") =>
        /\ res.success
        /\ trk.undos = trk.n => Files(fs) = Files(InitFs)

----------------------------------------------------------------------------
(* GroqClient: a request with retries *)

MaxRetries == 3      \* the largest maxRetries a caller passes

\* how one call of client.chat.completions.create settled: with a response,
\* or with an error that has the status given, if any
Resolves == [ok |-> TRUE, status |-> Null]
Rejects(status) == [ok |-> FALSE, status |-> status]

\* status === 429 || (status >= 500 && status < 600), false for no status
Transient(status) ==
    status # Null /\ (status[1] = 429 \/ (status[1] >= 500 /\ status[1] < 600))

\* the statuses of the errors: none, 400, 401, 429, 500, 503 and 600
ErrorStatuses == {Null, Some(400), Some(401), Some(429), Some(500), Some(503), Some(600)}

agentVars == <<running, hostPc, answer, safeMode, asked, pending, inFlight>>

\* the loop test attempt <= maxRetries, and the undefined the function
\* returns when it is false
LoopTest(r) ==
    IF r.attempt <= r.maxRetries
    THEN [r EXCEPT !.pc = "calling", !.completion = NoCompletion]
    ELSE [r EXCEPT !.pc = "returned", !.completion = UndefinedValue]

\* createCompletionWithRetry(payload, options) up to its first call
createCompletionWithRetry(options) ==
    /\ retryPc = "idle"
    /\ retry' = LoopTest([retry EXCEPT
                    !.maxRetries = IF options.maxRetries # Null
                                   THEN options.maxRetries[1] ELSE 2,
                    !.baseDelayMs = IF options.baseDelayMs # Null
                                    THEN options.baseDelayMs[1] ELSE 500,
                    !.attempt = 0])
    /\ UNCHANGED <<fmVars, mutations, trk, planVars, agentVars>>

\* the call of this attempt resolves: return await ...create(payload)
createResolves ==
    /\ retryPc = "calling"
    /\ retry' = [retry EXCEPT !.calls = Append(calls, Resolves),
                              !.completion = Response(Len(calls) + 1),
                              !.pc = "returned"]
    /\ UNCHANGED <<fmVars, mutations, trk, planVars, agentVars>>

\* the catch block that sleeps and retries whatever the status is
createRejectsRetriesAny(status) ==
    /\ retryPc = "calling"
    /\ retry' = IF attempt = maxRetries
                THEN [retry EXCEPT !.calls = Append(calls, Rejects(status)),
                                   !.completion = ThrownError(Len(calls) + 1),
                                   !.pc = "thrown"]
                ELSE [retry EXCEPT !.calls = Append(calls, Rejects(status)),
                                   !.delays = Append(delays, baseDelayMs * (2 ^ attempt)),
                                   !.pc = "sleeping"]
    /\ UNCHANGED <<fmVars, mutations, trk, planVars, agentVars>>

\* the call of this attempt rejects: the catch block
createRejects(status) ==
    /\ retryPc = "calling"
    /\ retry' = IF ~Transient(status) \/ attempt = maxRetries
                THEN [retry EXCEPT !.calls = Append(calls, Rejects(status)),
                                   !.completion = ThrownError(Len(calls) + 1),
                                   !.pc = "thrown"]
                ELSE [retry EXCEPT !.calls = Append(calls, Rejects(status)),
                                   !.delays = Append(delays, baseDelayMs * (2 ^ attempt)),
                                   !.pc = "sleeping"]
    /\ UNCHANGED <<fmVars, mutations, trk, planVars, agentVars>>

\* the timer of sleep(delay) fires: attempt += 1 and the loop test
sleepDone ==
    /\ retryPc = "sleeping"
    /\ retry' = LoopTest([retry EXCEPT !.attempt = attempt + 1])
    /\ UNCHANGED <<fmVars, mutations, trk, planVars, agentVars>>

RetryOptions ==
    [maxRetries : {Null} \cup {Some(n) : n \in 0..MaxRetries},
     baseDelayMs : {Null, Some(100)}]

RtRequest == \E options \in RetryOptions : createCompletionWithRetry(options)
RtResolves == createResolves
RtRejects == \E status \in ErrorStatuses : createRejects(status)
RtWakes == sleepDone

RetryNext ==
    \/ RtRequest
    \/ RtResolves
    \/ RtRejects
    \/ RtWakes

\* every call the client makes settles, and every timer fires
RetrySpec ==
    /\ Init
    /\ [][RetryNext]_vars
    /\ WF_vars(RtResolves \/ RtRejects)
    /\ WF_vars(RtWakes)

RetryDone == retryPc \in {"returned", "thrown"}

\* at most maxRetries + 1 calls are made, and every call but the last one
\* failed with a transient error; a returned value is the response of the
\* last call; a thrown error is the error of the last call, which is either
\* not transient or the error of call maxRetries + 1
RetryOutcome ==
    /\ Len(calls) <= maxRetries + 1
    /\ Len(calls) = (IF retryPc \in {"idle", "calling"} THEN attempt ELSE attempt + 1)
    /\ \A k \in 1..(Len(calls) - 1) : ~calls[k].ok /\ Transient(calls[k].status)
    /\ Len(delays) = (IF RetryDone \/ retryPc = "idle" THEN Max(Len(calls) - 1, 0) ELSE Len(calls))
    /\ \A k \in 1..Len(delays) : delays[k] = baseDelayMs * (2 ^ (k - 1))
    /\ retryPc = "returned" =>
           /\ calls # <<>> /\ Last(calls).ok
           /\ completion = Response(Len(calls))
    /\ retryPc = "thrown" =>
           /\ calls # <<>> /\ ~Last(calls).ok
           /\ completion = ThrownError(Len(calls))
           /\ ~Transient(Last(calls).status) \/ Len(calls) = maxRetries + 1
    /\ (calls # <<>> /\ Last(calls).ok) => retryPc = "returned"
    /\ (calls # <<>> /\ ~Last(calls).ok /\ ~Transient(Last(calls).status)) => retryPc = "thrown"
    /\ (Len(calls) = maxRetries + 1 /\ ~Last(calls).ok) => retryPc = "thrown"

\* C38: createCompletionWithRetry ends after at most maxRetries + 1 calls of
\* the client: it returns the first response it gets, throws an error that
\* is not transient (a status other than 429 and 500..599) right after the
\* call that raised it, and throws the last error when call maxRetries + 1
\* has failed; once called it always comes to one of these ends, and then
\* makes no further call.
C38_RetryTerminates ==
    /\ []RetryOutcome
    /\ [][RetryDone => UNCHANGED retryVars]_vars
    /\ (retryPc # "idle") ~> RetryDone

\* two transient errors were retried after 500 and 1000 ms and the third
\* call failed too, with the default options
C38_Witness ==
    /\ retryPc = "thrown"
    /\ maxRetries = 2
    /\ calls = <<Rejects(Some(429)), Rejects(Some(503)), Rejects(Some(500))>>
    /\ delays = <<500, 1000>>
    /\ completion = ThrownError(3)
====
